---- MODULE Spec2Model ----
(***************************************************************************)
(* Operation-log head resolution of jj (lib/src/op_heads_store.rs).        *)
(*                                                                         *)
(* Several processes share one operation store (append-only, content-      *)
(* addressed) and one op-heads store (a mutable set of operation ids with  *)
(* an optional advisory lock).  Each process runs resolve_op_heads, and,   *)
(* once it holds a current operation, may commit a transaction on top of   *)
(* it.  Every access to a store is one step of a process.                  *)
(***************************************************************************)
EXTENDS Naturals, Sequences, FiniteSets

\* Bounds of the model: the number of operation records the store can hold,
\* in the system at large (Spec) and in the scenarios that start from two
\* divergent heads (SpecRace).
MaxOps == 4
MaxRaceOps == 5

\* End timestamps.  The code only compares them (sort_by_key), and two values
\* give every pair of operations each of the orders <, = and >.
Timestamps == {1, 2}

Procs == {"p1", "p2"}

VARIABLES
    capacity,          \* how many records the store can hold (fixed by Init)
    op_store,          \* the set of operation records written so far
    op_heads_store,    \* the set of operation ids currently recorded as heads
    lock_impl,         \* "exclusive" or "noop": what lock() of this store does
    lock_holders,      \* processes that hold a lock handle
    pc,                \* position of each process
    op_heads,          \* resolve_op_heads: the heads read before the lock
    op_head_ids,       \* resolve_op_heads: the heads read after the lock
    filtered_op_heads, \* resolve_op_heads: heads that are not ancestors
    resolver_input,    \* the list handed to the resolver (<<>>: not invoked)
    new_op,            \* the operation a process wrote (NoOp: none)
    ret,               \* result of the last resolve_op_heads call
    calls,             \* per call: how often each collaborator was called
    destination,       \* jj git clone: what is at the destination path
    clone,             \* jj git clone: the state of the command
    bookmarks,         \* the local bookmarks of the view at the current operation
    move               \* jj bookmark move: the state of the command

vars == <<capacity, op_store, op_heads_store, lock_impl, lock_holders, pc, op_heads,
          op_head_ids, filtered_op_heads, resolver_input, new_op, ret, calls,
          destination, clone, bookmarks, move>>

\* The state of the command layer, which the operation log does not touch.
cloneVars == <<destination, clone>>
moveVars == <<bookmarks, move>>

----------------------------------------------------------------------------
\* Data model

\* An operation id is the content address of the operation's record.  The
\* hash is taken to be injective, so an id is modelled as the record it
\* addresses: the ids of its parents and the end timestamp of its metadata.
RootOp == [parents |-> <<>>, ts |-> 0]

\* No operation (the value of new_op before a process wrote one); every
\* operation but the root has parents, and the root's timestamp is 0.
NoOp == [parents |-> <<>>, ts |-> 1]

Range(s) == {s[i] : i \in 1..Len(s)}

parent_ids(op) == op.parents

end_timestamp(op) == op.ts

\* op_store.write_operation: the record is added under its content address;
\* writing a record that is already stored stores nothing.
write_operation(store, rec) == store \cup {rec}

\* A record can be written within the model's bound.
CanWrite(rec) == rec \in op_store \/ Cardinality(op_store) < capacity

----------------------------------------------------------------------------
\* dag_walk::heads_ok: the members of a set of operations that are not an
\* ancestor of another member.

RECURSIVE AncestorsFrom(_, _)
AncestorsFrom(work, visited) ==
    IF work = {} THEN visited
    ELSE LET id == CHOOSE x \in work : TRUE
             ps == Range(parent_ids(id))
         IN  AncestorsFrom((work \cup ps) \ (visited \cup {id}), visited \cup {id})

\* The proper ancestors of an operation.
Ancestors(id) == AncestorsFrom(Range(parent_ids(id)), {})

\* A filter that looks one edge up: it drops the members that are a parent of
\* another member.
heads_ok_Parents_Only(S) == {x \in S : \A y \in S \ {x} : x \notin Range(parent_ids(y))}

heads_ok(S) == {x \in S : \A y \in S \ {x} : x \notin Ancestors(y)}

----------------------------------------------------------------------------
\* OpHeadsStore

get_op_heads == op_heads_store

\* An update that writes back the caller's view: the new head alone.
update_op_heads_Last_Writer_Wins(old_ids, new_id) == {new_id}

\* An update that records the new head and leaves the old ones in place.
update_op_heads_Keeps_Old(old_ids, new_id) == op_heads_store \cup {new_id}

\* An update that removes the old heads and does not add the new one.
update_op_heads_Removes_Only(old_ids, new_id) == op_heads_store \ old_ids

update_op_heads(old_ids, new_id) == (op_heads_store \ old_ids) \cup {new_id}

\* update_op_heads cut short after it recorded the new head and before it
\* removed the old ones.
update_op_heads_partial(old_ids, new_id) == op_heads_store \cup {new_id}

\* A lock that excludes nobody.
LockAvailable_Never_Excludes == TRUE

\* lock(): an exclusive lock is available when nobody holds it; the no-op
\* lock is always available.
LockAvailable == lock_impl = "noop" \/ lock_holders = {}

----------------------------------------------------------------------------
\* Results and bookkeeping of a call

NoRet == [kind |-> "none", id |-> NoOp, via |-> "none"]
Ok(id, via) == [kind |-> "ok", id |-> id, via |-> via]
\* Every error is reported as NoHeads.
Err_As_NoHeads(e) == [kind |-> "err", id |-> NoOp, via |-> "NoHeads"]

Err(e) == [kind |-> "err", id |-> NoOp, via |-> e]

NoCalls == [get |-> 0, lock |-> 0, resolver |-> 0, update |-> 0]

\* A call that is made again after it failed.
Called_Retried(p, what) == [calls EXCEPT ![p][what] = @ + 2]

Called(p, what) == [calls EXCEPT ![p][what] = @ + 1]

\* Nothing is at a path.
Absent == [kind |-> "absent", entries |-> {}]

\* No jj git clone command is running.
CloneIdle ==
    [pc |-> "idle", source |-> "none", colocate |-> FALSE, wc_path_existed |-> FALSE,
     before |-> Absent, result |-> "none", stderr |-> <<>>]

NoCloneCommand == destination = Absent /\ clone = CloneIdle

\* The names of the local bookmarks.
Names == {"a", "b"}

\* A bookmark's target is modelled by its added commit ids: none when the
\* bookmark is absent, one when it is normal, two when it is conflicted.
AbsentTarget == {}

\* No jj bookmark move command is running.
MoveIdle ==
    [pc |-> "idle", names |-> {}, from |-> {}, to |-> "none",
     allow_backwards |-> FALSE, matched |-> {}, tx |-> "none", tx_view |-> <<>>,
     view_before |-> <<>>, store_before |-> {}, heads_before |-> {},
     result |-> "none", status |-> "none"]

NoMoveCommand == bookmarks = [n \in Names |-> AbsentTarget] /\ move = MoveIdle

TypeOK ==
    /\ capacity \in Nat
    /\ Cardinality(op_store) <= capacity
    /\ op_heads_store \subseteq op_store
    /\ lock_impl \in {"exclusive", "noop"}
    /\ lock_holders \subseteq Procs
    /\ pc \in [Procs -> {"idle", "lock", "reread", "cleanup",
                         "resolve", "update", "done", "publish"}]

Init ==
    /\ capacity = MaxOps
    /\ op_store = {RootOp}
    /\ op_heads_store \in {{RootOp}, {}}
    /\ lock_impl \in {"exclusive", "noop"}
    /\ lock_holders = {}
    /\ pc = [p \in Procs |-> "idle"]
    /\ op_heads = [p \in Procs |-> {}]
    /\ op_head_ids = [p \in Procs |-> {}]
    /\ filtered_op_heads = [p \in Procs |-> {}]
    /\ resolver_input = [p \in Procs |-> <<>>]
    /\ new_op = [p \in Procs |-> NoOp]
    /\ ret = [p \in Procs |-> NoRet]
    /\ calls = [p \in Procs |-> NoCalls]
    /\ NoCloneCommand
    /\ NoMoveCommand

----------------------------------------------------------------------------
\* Helpers of resolve_op_heads

\* A test that no list passes.
IsSingle_Never(ids) == FALSE

\* A test that any nonempty list passes.
IsSingle_Not_Empty(ids) == Cardinality(ids) >= 1

\* op_heads.len() == 1 (and op_head_ids.len() == 1 after the lock)
IsSingle(ids) == Cardinality(ids) = 1

\* A test that no list passes.
is_empty_Never(ids) == FALSE

\* op_head_ids.is_empty()
is_empty(ids) == ids = {}

TheOne(ids) == CHOOSE x \in ids : TRUE

\* Working on the heads read before the lock.
PostLockHeads_Pre_Lock(p) == op_heads[p]

\* The heads a call works on are those read after lock() returned.
PostLockHeads(p) == get_op_heads

\* Every head that was read is taken to be stale.
ancestor_op_heads_All_Read(p) == op_head_ids[p]

\* No head is taken to be stale.
ancestor_op_heads_None(p) == {}

\* op_head_ids_before.difference(&op_head_ids_after)
ancestor_op_heads(p) == op_head_ids[p] \ filtered_op_heads[p]

\* The orders in which the filtered heads can come out of the filter's set.
Orderings(S) ==
    {s \in [1..Cardinality(S) -> S] : \A i, j \in 1..Cardinality(S) : s[i] = s[j] => i = j}

\* An unstable sort: an element goes before the elements already placed
\* that have its key.
RECURSIVE InsertByKey_Before_Equal(_, _)
InsertByKey_Before_Equal(sorted, x) ==
    IF sorted = <<>> THEN <<x>>
    ELSE IF end_timestamp(sorted[Len(sorted)]) < end_timestamp(x)
         THEN Append(sorted, x)
         ELSE Append(InsertByKey_Before_Equal(SubSeq(sorted, 1, Len(sorted) - 1), x),
                     sorted[Len(sorted)])

\* Vec::sort_by_key is a stable sort: an element goes behind every element
\* already placed whose key is not greater.
RECURSIVE InsertByKey(_, _)
InsertByKey(sorted, x) ==
    IF sorted = <<>> THEN <<x>>
    ELSE IF end_timestamp(sorted[Len(sorted)]) <= end_timestamp(x)
         THEN Append(sorted, x)
         ELSE Append(InsertByKey(SubSeq(sorted, 1, Len(sorted) - 1), x),
                     sorted[Len(sorted)])

\* No sorting: the order the filter produced is kept.
sort_by_key_Unsorted(s) == s

RECURSIVE sort_by_key(_)
sort_by_key(s) ==
    IF s = <<>> THEN <<>>
    ELSE InsertByKey(sort_by_key(SubSeq(s, 1, Len(s) - 1)), s[Len(s)])

\* The subsequence of s of the elements in T.
Restrict(s, T) == LET In(x) == x \in T IN SelectSeq(s, In)

\* Retiring what the resolver consumed and forgetting the stale heads.
old_op_heads_Parents_Only(p) == Range(parent_ids(new_op[p]))

\* Retiring every head that was read, whatever the resolver consumed.
old_op_heads_All_Read(p) == op_head_ids[p]

\* Retiring the stale heads only, not what the resolver consumed.
old_op_heads_Stale_Only(p) == ancestor_op_heads(p)

\* old_op_heads = ancestor_op_heads extended by new_op.parent_ids()
old_op_heads(p) == ancestor_op_heads(p) \cup Range(parent_ids(new_op[p]))

\* A handle that holds no lock.
TakeLock_Holds_Nothing(p) == lock_holders

\* let _lock = op_heads_store.lock()
TakeLock(p) == lock_holders \cup {p}

\* A handle that keeps the lock when it goes out of scope.
DropLock_Keeps(p) == lock_holders

\* _lock goes out of scope
DropLock(p) == lock_holders \ {p}

\* The local variables of process p take these values.
SetLocals(p, heads, ids, filtered, input, op) ==
    /\ op_heads' = [op_heads EXCEPT ![p] = heads]
    /\ op_head_ids' = [op_head_ids EXCEPT ![p] = ids]
    /\ filtered_op_heads' = [filtered_op_heads EXCEPT ![p] = filtered]
    /\ resolver_input' = [resolver_input EXCEPT ![p] = input]
    /\ new_op' = [new_op EXCEPT ![p] = op]
    /\ UNCHANGED <<cloneVars, moveVars>>

\* A return that hands out the merge operation although an error was raised.
Return_Ignores_Error(p, r) ==
    /\ pc' = [pc EXCEPT ![p] = "done"]
    /\ ret' = [ret EXCEPT ![p] = IF r.kind = "err" /\ new_op[p] # NoOp
                                 THEN Ok(new_op[p], "merge") ELSE r]
    /\ lock_holders' = DropLock(p)
    /\ SetLocals(p, {}, {}, {}, <<>>, NoOp)

\* resolve_op_heads returns r: its locals go out of scope, the lock with them.
Return(p, r) ==
    /\ pc' = [pc EXCEPT ![p] = "done"]
    /\ ret' = [ret EXCEPT ![p] = r]
    /\ lock_holders' = DropLock(p)
    /\ SetLocals(p, {}, {}, {}, <<>>, NoOp)

\* resolve_op_heads goes on to its next store access.
Goto(p, next, heads, ids, filtered, input, op) ==
    /\ pc' = [pc EXCEPT ![p] = next]
    /\ SetLocals(p, heads, ids, filtered, input, op)
    /\ UNCHANGED <<ret, lock_holders>>

----------------------------------------------------------------------------
\* resolve_op_heads, one action per access to a store.  Each has the steps
\* in which the stores answer (Ok) and those in which one of them fails.

\* The heads an update_op_heads call that process q is about to make retires.
PendingRetire(q) ==
    IF pc[q] = "cleanup" THEN ancestor_op_heads(q)
    ELSE IF pc[q] = "update" THEN old_op_heads(q)
    ELSE IF pc[q] = "publish" THEN {ret[q].id}
    ELSE {}

\* Lines 88-91: what the read before the lock can return.  It is the head
\* set, or, when it overlaps an update of another process that retires every
\* head, possibly nothing: the entries it had not reached yet are deleted and
\* the new one is added behind it.
FirstReadOutcomes(p) ==
    {get_op_heads} \cup
    {S \in {{}} : \E q \in Procs \ {p} :
                    get_op_heads # {} /\ get_op_heads \subseteq PendingRetire(q)}

\* A first read that is followed by lock() whatever it returned.
ReadHeadsOk_Always_Locks(p) ==
    /\ pc[p] \in {"idle", "done"}
    /\ calls' = [calls EXCEPT ![p] = [NoCalls EXCEPT !.get = 1]]
    /\ UNCHANGED <<capacity, op_store, op_heads_store, lock_impl>>
    /\ \E heads \in FirstReadOutcomes(p) :
       /\ pc' = [pc EXCEPT ![p] = "lock"]
       /\ ret' = [ret EXCEPT ![p] = NoRet]
       /\ SetLocals(p, heads, {}, {}, <<>>, NoOp)
       /\ UNCHANGED lock_holders

\* Lines 91-97: the first read of the heads and the fast path.
ReadHeadsOk(p) ==
    /\ pc[p] \in {"idle", "done"}
    /\ calls' = [calls EXCEPT ![p] = [NoCalls EXCEPT !.get = 1]]
    /\ UNCHANGED <<capacity, op_store, op_heads_store, lock_impl>>
    /\ \E heads \in FirstReadOutcomes(p) :
       IF IsSingle(heads)
       THEN Return(p, Ok(TheOne(heads), "fast"))
       ELSE /\ pc' = [pc EXCEPT ![p] = "lock"]
            /\ ret' = [ret EXCEPT ![p] = NoRet]
            /\ SetLocals(p, heads, {}, {}, <<>>, NoOp)
            /\ UNCHANGED lock_holders

\* A failure of the first read that surfaces only after lock() was called.
ReadHeadsFail_After_Lock(p) ==
    /\ pc[p] \in {"idle", "done"}
    /\ calls' = [calls EXCEPT ![p] = [NoCalls EXCEPT !.get = 1, !.lock = 1]]
    /\ UNCHANGED <<capacity, op_store, op_heads_store, lock_impl>>
    /\ \/ Return(p, Err("Read"))
       \/ IsSingle(get_op_heads) /\ Return(p, Err("OpStore"))

\* get_op_heads fails, or read_operation of the single head does.
ReadHeadsFail(p) ==
    /\ pc[p] \in {"idle", "done"}
    /\ calls' = [calls EXCEPT ![p] = [NoCalls EXCEPT !.get = 1]]
    /\ UNCHANGED <<capacity, op_store, op_heads_store, lock_impl>>
    /\ \/ Return(p, Err("Read"))
       \/ IsSingle(get_op_heads) /\ Return(p, Err("OpStore"))

ReadHeads(p) == ReadHeadsOk(p) \/ ReadHeadsFail(p)

\* Line 107: lock(); it blocks while an exclusive lock is held.
AcquireLockOk(p) ==
    /\ pc[p] = "lock"
    /\ LockAvailable
    /\ calls' = Called(p, "lock")
    /\ lock_holders' = TakeLock(p)
    /\ pc' = [pc EXCEPT ![p] = "reread"]
    /\ UNCHANGED <<capacity, op_store, op_heads_store, lock_impl, ret, op_heads,
                   op_head_ids, filtered_op_heads, resolver_input, new_op,
                   destination, clone, bookmarks, move>>

\* A failure of lock() that is swallowed: the call goes on without a lock.
AcquireLockFail_Goes_On(p) ==
    /\ pc[p] = "lock"
    /\ calls' = Called(p, "lock")
    /\ pc' = [pc EXCEPT ![p] = "reread"]
    /\ UNCHANGED <<capacity, op_store, op_heads_store, lock_impl, lock_holders, ret,
                   op_heads, op_head_ids, filtered_op_heads, resolver_input, new_op,
                   destination, clone, bookmarks, move>>

\* A failure of lock() after which the call tries lock() again.
AcquireLockFail_Retries(p) ==
    /\ pc[p] = "lock"
    /\ calls' = Called(p, "lock")
    /\ UNCHANGED <<capacity, op_store, op_heads_store, lock_impl, lock_holders, pc, ret,
                   op_heads, op_head_ids, filtered_op_heads, resolver_input, new_op,
                   destination, clone, bookmarks, move>>

AcquireLockFail(p) ==
    /\ pc[p] = "lock"
    /\ calls' = Called(p, "lock")
    /\ Return(p, Err("Lock"))
    /\ UNCHANGED <<capacity, op_store, op_heads_store, lock_impl>>

AcquireLock(p) == AcquireLockOk(p) \/ AcquireLockFail(p)

\* A reread that hands the heads on as they were read, without the filter.
RereadHeadsOk_Unfiltered(p) ==
    /\ pc[p] = "reread"
    /\ calls' = Called(p, "get")
    /\ UNCHANGED <<capacity, op_store, op_heads_store, lock_impl>>
    /\ LET ids == PostLockHeads(p) IN
       IF is_empty(ids)
       THEN Return(p, Err("NoHeads"))
       ELSE IF IsSingle(ids)
       THEN Return(p, Ok(TheOne(ids), "single"))
       ELSE Goto(p, "resolve", {}, ids, ids, <<>>, NoOp)

\* Lines 108-141: the read under the lock, the loading of the heads and the
\* ancestor filter.
RereadHeadsOk(p) ==
    /\ pc[p] = "reread"
    /\ calls' = Called(p, "get")
    /\ UNCHANGED <<capacity, op_store, op_heads_store, lock_impl>>
    /\ LET ids == PostLockHeads(p) IN
       IF is_empty(ids)
       THEN Return(p, Err("NoHeads"))
       ELSE IF IsSingle(ids)
       THEN Return(p, Ok(TheOne(ids), "single"))
       ELSE Goto(p, IF IsSingle(heads_ok(ids)) THEN "cleanup" ELSE "resolve",
                 {}, ids, heads_ok(ids), <<>>, NoOp)

\* Lines 108, 116, 120-126: get_op_heads fails, or read_operation of a head
\* does.
LoadHeadsFail(p) ==
    /\ pc[p] = "reread"
    /\ calls' = Called(p, "get")
    /\ UNCHANGED <<capacity, op_store, op_heads_store, lock_impl>>
    /\ \/ Return(p, Err("Read"))
       \/ PostLockHeads(p) # {} /\ Return(p, Err("OpStore"))

\* A parent that cannot be read is skipped: the filter goes on without the
\* ancestors behind it and drops no head.
FilterFail_Skips_Parent(p) ==
    /\ pc[p] = "reread"
    /\ Cardinality(PostLockHeads(p)) >= 2
    /\ calls' = Called(p, "get")
    /\ UNCHANGED <<capacity, op_store, op_heads_store, lock_impl>>
    /\ Goto(p, "resolve", {}, PostLockHeads(p), PostLockHeads(p), <<>>, NoOp)

\* Lines 130-134: the filter fails because a parent of an operation it
\* visits cannot be read (the heads themselves are loaded before it runs).
FilterFail(p) ==
    /\ pc[p] = "reread"
    /\ Cardinality(PostLockHeads(p)) >= 2
    /\ \E h \in PostLockHeads(p) : parent_ids(h) # <<>>
    /\ calls' = Called(p, "get")
    /\ UNCHANGED <<capacity, op_store, op_heads_store, lock_impl>>
    /\ Return(p, Err("OpStore"))

RereadHeadsFail(p) == LoadHeadsFail(p) \/ FilterFail(p)

RereadHeads(p) == RereadHeadsOk(p) \/ RereadHeadsFail(p)

\* A cleanup that also deletes the records of the stale heads it retires.
CleanupOk_Deletes_Stale(p) ==
    /\ pc[p] = "cleanup"
    /\ calls' = Called(p, "update")
    /\ UNCHANGED <<capacity, lock_impl>>
    /\ op_store' = op_store \ (ancestor_op_heads(p) \ {RootOp})
    /\ LET op_head == TheOne(filtered_op_heads[p]) IN
       /\ op_heads_store' = update_op_heads(ancestor_op_heads(p), op_head)
       /\ Return(p, Ok(op_head, "cleanup"))

\* A cleanup that writes back the head set as the call saw it: the one head
\* that is left after the filter.
CleanupOk_Writes_Back(p) ==
    /\ pc[p] = "cleanup"
    /\ calls' = Called(p, "update")
    /\ UNCHANGED <<capacity, op_store, lock_impl>>
    /\ LET op_head == TheOne(filtered_op_heads[p]) IN
       /\ op_heads_store' = {op_head}
       /\ Return(p, Ok(op_head, "cleanup"))

\* Lines 144-147: one head is left after the filter; the stale heads are
\* retired and no merge operation is made.
CleanupOk(p) ==
    /\ pc[p] = "cleanup"
    /\ calls' = Called(p, "update")
    /\ UNCHANGED <<capacity, op_store, lock_impl>>
    /\ LET op_head == TheOne(filtered_op_heads[p]) IN
       /\ op_heads_store' = update_op_heads(ancestor_op_heads(p), op_head)
       /\ Return(p, Ok(op_head, "cleanup"))

\* update_op_heads fails, before or after it recorded the new head.
CleanupFail(p) ==
    /\ pc[p] = "cleanup"
    /\ calls' = Called(p, "update")
    /\ UNCHANGED <<capacity, op_store, lock_impl>>
    /\ LET op_head == TheOne(filtered_op_heads[p]) IN
       /\ op_heads_store' \in
             {op_heads_store, update_op_heads_partial(ancestor_op_heads(p), op_head)}
       /\ Return(p, Err("Write"))

Cleanup(p) == CleanupOk(p) \/ CleanupFail(p)

\* The parent lists a resolver may declare for its merge operation: those of
\* its (sorted) inputs it consumed, all of them or some.
ResolverParents(sorted, all) ==
    {Restrict(sorted, T) : T \in
        IF all THEN {Range(sorted)} ELSE (SUBSET Range(sorted)) \ {{}}}

\* A resolver that returns a merge operation it has not written to the
\* store.
ResolverGiven_Not_Written(p, order, all) ==
    /\ pc[p] = "resolve"
    /\ calls' = Called(p, "resolver")
    /\ UNCHANGED <<capacity, op_store, op_heads_store, lock_impl>>
    /\ LET sorted == sort_by_key(order) IN
       \E parents \in ResolverParents(sorted, all), ts \in Timestamps :
          LET rec == [parents |-> parents, ts |-> ts] IN
          /\ CanWrite(rec)
          /\ Goto(p, "update", {}, op_head_ids[p], filtered_op_heads[p], sorted, rec)

\* Lines 149-150: the heads are sorted by end timestamp and handed to the
\* resolver, which writes the merge operation and returns it.
ResolverGiven(p, order, all) ==
    /\ pc[p] = "resolve"
    /\ calls' = Called(p, "resolver")
    /\ UNCHANGED <<capacity, op_heads_store, lock_impl>>
    /\ LET sorted == sort_by_key(order) IN
       \E parents \in ResolverParents(sorted, all), ts \in Timestamps :
          LET rec == [parents |-> parents, ts |-> ts] IN
          /\ CanWrite(rec)
          /\ op_store' = write_operation(op_store, rec)
          /\ Goto(p, "update", {}, op_head_ids[p], filtered_op_heads[p], sorted, rec)

\* Line 141: the filtered heads come out of the filter's set in some order.
ResolverReturns(p, all) ==
    \E order \in Orderings(filtered_op_heads[p]) : ResolverGiven(p, order, all)

ResolveOk(p) == ResolverReturns(p, FALSE)

\* The resolver returns an error.
ResolveFail(p) ==
    /\ pc[p] = "resolve"
    /\ calls' = Called(p, "resolver")
    /\ Return(p, Err("Resolver"))
    /\ UNCHANGED <<capacity, op_store, op_heads_store, lock_impl>>

Resolve(p) == ResolveOk(p) \/ ResolveFail(p)

\* Whether the resolver declared every operation it was given as a parent of
\* the merge operation, or only some of them.
MergeKind(p) ==
    IF Range(parent_ids(new_op[p])) = filtered_op_heads[p] THEN "merge" ELSE "merge_part"

\* A merge path that returns the merge operation without making it a head.
UpdateOk_Not_Published(p) ==
    /\ pc[p] = "update"
    /\ calls' = Called(p, "update")
    /\ UNCHANGED <<capacity, op_store, op_heads_store, lock_impl>>
    /\ Return(p, Ok(new_op[p], MergeKind(p)))

\* Lines 151-154: the stale heads and the parents of the merge operation are
\* retired, the merge operation becomes a head.
UpdateOk(p) ==
    /\ pc[p] = "update"
    /\ calls' = Called(p, "update")
    /\ UNCHANGED <<capacity, op_store, lock_impl>>
    /\ op_heads_store' = update_op_heads(old_op_heads(p), new_op[p])
    /\ Return(p, Ok(new_op[p], MergeKind(p)))

UpdateFail(p) ==
    /\ pc[p] = "update"
    /\ calls' = Called(p, "update")
    /\ UNCHANGED <<capacity, op_store, lock_impl>>
    /\ op_heads_store' \in
          {op_heads_store, update_op_heads_partial(old_op_heads(p), new_op[p])}
    /\ Return(p, Err("Write"))

Update(p) == UpdateOk(p) \/ UpdateFail(p)

----------------------------------------------------------------------------
\* The transaction layer: a process that holds a current operation writes a
\* new operation on top of it, then publishes it as a head.

CommitWrite(p) ==
    /\ pc[p] = "done"
    /\ ret[p].kind = "ok"
    /\ \E ts \in Timestamps :
       LET rec == [parents |-> <<ret[p].id>>, ts |-> ts] IN
       /\ CanWrite(rec)
       /\ op_store' = write_operation(op_store, rec)
       /\ Goto(p, "publish", {}, {}, {}, <<>>, rec)
    /\ UNCHANGED <<capacity, op_heads_store, lock_impl, calls>>

\* The process is over.
Exit(p) ==
    /\ pc' = [pc EXCEPT ![p] = "idle"]
    /\ ret' = [ret EXCEPT ![p] = NoRet]
    /\ calls' = [calls EXCEPT ![p] = NoCalls]
    /\ lock_holders' = lock_holders \ {p}
    /\ SetLocals(p, {}, {}, {}, <<>>, NoOp)

\* update_op_heads([previous current operation], new operation) succeeds.
CommitPublishOk(p) ==
    /\ pc[p] = "publish"
    /\ op_heads_store' = update_op_heads({ret[p].id}, new_op[p])
    /\ Exit(p)
    /\ UNCHANGED <<capacity, op_store, lock_impl>>

\* update_op_heads fails, before or after it recorded the new head.
CommitPublishFail(p) ==
    /\ pc[p] = "publish"
    /\ op_heads_store' \in
          {op_heads_store, update_op_heads_partial({ret[p].id}, new_op[p])}
    /\ Exit(p)
    /\ UNCHANGED <<capacity, op_store, lock_impl>>

CommitPublish(p) == CommitPublishOk(p) \/ CommitPublishFail(p)

\* A process stops in the middle of a call; the operating system releases
\* its lock.  Stopping inside update_op_heads can leave the new head recorded
\* and the old ones not yet removed.
Crash(p) ==
    /\ pc[p] \in {"lock", "reread", "cleanup", "resolve", "update", "publish"}
    /\ \/ UNCHANGED op_heads_store
       \/ /\ pc[p] = "cleanup"
          /\ op_heads_store' = update_op_heads_partial(
                ancestor_op_heads(p), TheOne(filtered_op_heads[p]))
       \/ /\ pc[p] \in {"update", "publish"}
          /\ op_heads_store' = update_op_heads_partial({}, new_op[p])
    /\ Exit(p)
    /\ UNCHANGED <<capacity, op_store, lock_impl>>

Next ==
    \E p \in Procs :
        \/ ReadHeads(p)
        \/ AcquireLock(p)
        \/ RereadHeads(p)
        \/ Cleanup(p)
        \/ Resolve(p)
        \/ Update(p)
        \/ CommitWrite(p)
        \/ CommitPublish(p)
        \/ Crash(p)

Spec == Init /\ [][Next]_vars

----------------------------------------------------------------------------
\* Two concurrent resolutions of two divergent heads: two transactions were
\* committed on top of the root operation, and each process calls
\* resolve_op_heads once.

HeadA == [parents |-> <<RootOp>>, ts |-> 1]
HeadB == [parents |-> <<RootOp>>, ts |-> 2]

InitRace ==
    /\ capacity = MaxRaceOps
    /\ op_store = {RootOp, HeadA, HeadB}
    /\ op_heads_store = {HeadA, HeadB}
    /\ lock_impl \in {"exclusive", "noop"}
    /\ lock_holders = {}
    /\ pc = [p \in Procs |-> "idle"]
    /\ op_heads = [p \in Procs |-> {}]
    /\ op_head_ids = [p \in Procs |-> {}]
    /\ filtered_op_heads = [p \in Procs |-> {}]
    /\ resolver_input = [p \in Procs |-> <<>>]
    /\ new_op = [p \in Procs |-> NoOp]
    /\ ret = [p \in Procs |-> NoRet]
    /\ calls = [p \in Procs |-> NoCalls]
    /\ NoCloneCommand
    /\ NoMoveCommand

FirstCall(p) == pc[p] = "idle" /\ ReadHeads(p)

NextRace ==
    \E p \in Procs :
        \/ FirstCall(p)
        \/ AcquireLock(p)
        \/ RereadHeads(p)
        \/ Cleanup(p)
        \/ Resolve(p)
        \/ Update(p)

SpecRace == InitRace /\ [][NextRace]_vars

AllReturnedOk == \A p \in Procs : pc[p] = "done" /\ ret[p].kind = "ok"

OneHeadCovering(S) ==
    \E m \in op_store : op_heads_store = {m} /\ S \subseteq Range(parent_ids(m))

\* C1 as stated: once both calls over the heads {A, B} have returned, the head
\* set holds exactly one id, and that operation's parents cover A and B.
\* (The resolver is taken to declare all its inputs, as the claim's conclusion
\* presupposes.)
C1_Original ==
    (AllReturnedOk /\ \A p \in Procs : ret[p].via # "merge_part")
    => OneHeadCovering({HeadA, HeadB})

\* C1, amended: with an exclusive lock and a resolver that declares all its
\* inputs as parents, once both calls over the heads {A, B} have returned an
\* operation, the head set holds exactly one id, and that operation's
\* parents cover A and B.
C1_NoLostUpdate ==
    (/\ lock_impl = "exclusive"
     /\ AllReturnedOk
     /\ \A p \in Procs : ret[p].via # "merge_part")
    => OneHeadCovering({HeadA, HeadB})

\* Both calls took the slow path: one merged, the other found the single
\* head under the lock.
C1_Witness ==
    /\ lock_impl = "exclusive"
    /\ AllReturnedOk
    /\ \E p, q \in Procs : ret[p].via = "merge" /\ ret[q].via = "single"

----------------------------------------------------------------------------
\* An operation is covered when it is a head or an ancestor of a head.
Covered(x) == \E h \in op_heads_store : x = h \/ x \in Ancestors(h)

\* C2: with a lock() that excludes nobody, no step of any interleaving of
\* resolutions and commits uncovers a head: after the step it is still a head
\* or an ancestor of a head (and with it its ancestors).  Hence every id that
\* was ever in the head set is, in every later state, a head or an ancestor
\* of a head.
C2_NoOpLockKeepsOperations ==
    [][lock_impl = "noop" =>
          \A x \in op_heads_store \ op_heads_store' : Covered(x)']_vars

\* Both processes are inside the section the lock is meant to guard, and a
\* former head has been retired in favour of a descendant.
C2_Witness ==
    /\ lock_impl = "noop"
    /\ lock_holders = Procs
    /\ \E x \in op_store \ (op_heads_store \cup {RootOp}) : Covered(x)

----------------------------------------------------------------------------
\* Commits have stopped: the store holds the root and two operations
\* committed on top of it, any of them recorded as heads (stale entries are
\* left by interrupted updates).  Processes keep calling resolve_op_heads,
\* the stores answer, and the resolver declares all its inputs as parents.

InitConverge ==
    /\ capacity = MaxRaceOps
    /\ op_store = {RootOp, HeadA, HeadB}
    /\ op_heads_store \in (SUBSET op_store) \ {{}}
    /\ lock_impl \in {"exclusive", "noop"}
    /\ lock_holders = {}
    /\ pc = [p \in Procs |-> "idle"]
    /\ op_heads = [p \in Procs |-> {}]
    /\ op_head_ids = [p \in Procs |-> {}]
    /\ filtered_op_heads = [p \in Procs |-> {}]
    /\ resolver_input = [p \in Procs |-> <<>>]
    /\ new_op = [p \in Procs |-> NoOp]
    /\ ret = [p \in Procs |-> NoRet]
    /\ calls = [p \in Procs |-> NoCalls]
    /\ NoCloneCommand
    /\ NoMoveCommand

ResolveAll(p) == ResolverReturns(p, TRUE)

\* One step of resolve_op_heads by process p.
ResolveStep(p) ==
    \/ ReadHeadsOk(p)
    \/ AcquireLockOk(p)
    \/ RereadHeadsOk(p)
    \/ CleanupOk(p)
    \/ ResolveAll(p)
    \/ UpdateOk(p)

NextConverge == \E p \in Procs : ResolveStep(p)

\* Fair scheduling: a process that can take a step eventually takes one.
SpecConverge ==
    InitConverge /\ [][NextConverge]_vars /\ \A p \in Procs : WF_vars(ResolveStep(p))

Converged == Cardinality(op_heads_store) = 1

----------------------------------------------------------------------------
\* The merge path

\* Process p returns an operation from the merge path in this step.
MergeReturns(p) == pc[p] = "update" /\ pc'[p] = "done" /\ ret'[p].kind = "ok"

\* The post-lock heads of p are two operations, neither an ancestor of the
\* other.
TwoTrueHeads(p) ==
    Cardinality(op_head_ids[p]) = 2 /\ filtered_op_heads[p] = op_head_ids[p]

AscendingByTimestamp(s) ==
    \A i, j \in 1..Len(s) : i < j => end_timestamp(s[i]) <= end_timestamp(s[j])

\* C4 as stated: after a merge of the post-lock heads {A, B} the head set
\* holds exactly the id of the operation the resolver returned.
C4_Original ==
    [][\A p \in Procs : (MergeReturns(p) /\ TwoTrueHeads(p))
          => op_heads_store' = {new_op[p]}]_vars

\* C4, amended: when the post-lock heads are {A, B}, neither an ancestor of
\* the other, the resolver is invoked exactly once, with A and B ordered by
\* ascending end timestamp; and when it declares both as parents and no other
\* process has changed the head set since the post-lock read, the head set
\* after the call holds exactly the id of the operation it returned.
C4_DivergenceMerge ==
    [][\A p \in Procs : (MergeReturns(p) /\ TwoTrueHeads(p))
          => /\ calls[p].resolver = 1
             /\ Len(resolver_input[p]) = 2
             /\ Range(resolver_input[p]) = op_head_ids[p]
             /\ AscendingByTimestamp(resolver_input[p])
             /\ (/\ Range(parent_ids(new_op[p])) = op_head_ids[p]
                 /\ op_heads_store = op_head_ids[p])
                => op_heads_store' = {new_op[p]}]_vars

\* A call has merged two true heads and its merge operation is the only head.
C4_Witness ==
    \E p \in Procs :
        /\ pc[p] = "done"
        /\ ret[p] = Ok(ret[p].id, "merge")
        /\ Len(parent_ids(ret[p].id)) = 2
        /\ op_heads_store = {ret[p].id}

----------------------------------------------------------------------------
\* The cleanup path

\* The heads p read after the lock are at least two, and B is the only one
\* of them that is not an ancestor of another.
StaleBut(p, B) ==
    /\ Cardinality(op_head_ids[p]) >= 2
    /\ B \in op_head_ids[p]
    /\ \A x \in op_head_ids[p] :
          (x = B) <=> (\A y \in op_head_ids[p] : x \notin Ancestors(y))

\* Process p returns an operation in this step.
ReturnsOperation(p) == pc[p] # "done" /\ pc'[p] = "done" /\ ret'[p].kind = "ok"

\* C5 as stated: when only B of the (two or more) post-lock heads is not an
\* ancestor of another head, the call returns B and the head set becomes {B}.
C5_Original ==
    [][\A p \in Procs : \A B \in op_head_ids[p] :
          (StaleBut(p, B) /\ ReturnsOperation(p))
          => (ret'[p].id = B /\ op_heads_store' = {B})]_vars

\* C5, amended: when only B of the (two or more) post-lock heads is not an
\* ancestor of another head, the call takes the cleanup path: it never
\* invokes the resolver and creates no merge operation, and when it returns
\* an operation it returns B after one update_op_heads call that removes
\* every other head it read and leaves B; the head set is then exactly {B}
\* when no other process changed it since the post-lock read.
C5_StalenessCleanup ==
    [][\A p \in Procs : \A B \in op_head_ids[p] :
          StaleBut(p, B)
          => /\ pc[p] = "cleanup"
             /\ calls[p].resolver = 0
             /\ resolver_input[p] = <<>>
             /\ new_op[p] = NoOp
             /\ ReturnsOperation(p)
                => /\ ret'[p].id = B
                   /\ calls'[p].update = 1
                   /\ calls'[p].resolver = 0
                   /\ op_store' = op_store
                   /\ op_heads_store' = (op_heads_store \ op_head_ids[p]) \cup {B}
                   /\ (op_heads_store = op_head_ids[p] => op_heads_store' = {B})]_vars

\* A call has retired a stale head: it returned from the cleanup path and the
\* operation it returned is the only head.
C5_Witness ==
    \E p \in Procs :
        /\ pc[p] = "done"
        /\ ret[p] = Ok(ret[p].id, "cleanup")
        /\ calls[p].update = 1
        /\ op_heads_store = {ret[p].id}

----------------------------------------------------------------------------
\* The fast path

\* Process p returns from the fast path in this step.
FastPathReturns(p) ==
    /\ pc'[p] = "done"
    /\ ret'[p].via = "fast"
    /\ (pc[p] # "done" \/ ret[p] # ret'[p] \/ calls[p] # calls'[p])

\* C6: a call whose first read returns exactly one id ends with that read (it
\* goes on to lock() only after a read of no id or of several), and it
\* returns the operation of that id, the only head, having called
\* get_op_heads once and neither lock(), update_op_heads nor the resolver;
\* the head set, the operation store and the lock are as they were.
C6_SingleHeadFastPath ==
    [][\A p \in Procs :
          /\ pc'[p] = "lock" => ~IsSingle(op_heads'[p])
          /\ FastPathReturns(p)
             => /\ ret'[p].kind = "ok"
                /\ op_heads_store = {ret'[p].id}
                /\ calls'[p] = [get |-> 1, lock |-> 0, resolver |-> 0, update |-> 0]
                /\ UNCHANGED <<op_heads_store, op_store, lock_holders>>]_vars

\* A call has returned a committed operation from the fast path.
C6_Witness ==
    \E p \in Procs :
        /\ pc[p] = "done"
        /\ ret[p].via = "fast"
        /\ ret[p].id # RootOp
        /\ calls[p].lock = 0

----------------------------------------------------------------------------
\* The slow path: the read under the lock

\* Process p gets past its read under the lock in this step.
RereadStep(p) == pc[p] = "reread" /\ pc'[p] \notin {"reread", "idle"}

\* C7: a read of no id under the lock ends the call with NoHeads (unless the
\* read itself fails); NoHeads is returned only then, with the head set and
\* the operation store unchanged, update_op_heads not called, the resolver
\* not invoked and no operation written; a read before the lock, empty or
\* not, sends the call to lock() without a result.
C7_EmptyLogError ==
    [][\A p \in Procs :
          /\ (RereadStep(p) /\ op_heads_store = {})
             => (pc'[p] = "done" /\ ret'[p] \in {Err("NoHeads"), Err("Read")})
          /\ (ret'[p] = Err("NoHeads") /\ ret[p] # ret'[p])
             => /\ pc[p] = "reread"
                /\ op_heads_store = {}
                /\ UNCHANGED <<op_heads_store, op_store>>
                /\ calls'[p].update = 0
                /\ calls'[p].resolver = 0
                /\ new_op[p] = NoOp
          /\ pc'[p] = "lock" => ret'[p] = NoRet]_vars

\* A call has failed with NoHeads.
C7_Witness ==
    \E p \in Procs :
        /\ pc[p] = "done"
        /\ ret[p] = Err("NoHeads")
        /\ calls[p].lock = 1

\* A call whose read before the lock was empty has found heads under the
\* lock (the case of C7's last sentence).
C7_EmptyReadBeforeLock ==
    \E p \in Procs :
        /\ pc[p] = "reread"
        /\ op_heads[p] = {}
        /\ op_heads_store # {}

\* C8: what a call does after lock() is decided by the heads it reads then,
\* whatever it read before: one head M makes it return M (unless reading
\* fails) without invoking the resolver, calling update_op_heads or changing
\* a store; no head makes it fail; several heads are the ones it goes on to
\* filter.
C8_RereadUnderLock ==
    [][\A p \in Procs :
          RereadStep(p)
          => /\ \A M \in op_heads_store :
                   op_heads_store = {M}
                   => /\ pc'[p] = "done"
                      /\ ret'[p] \in {Ok(M, "single"), Err("Read"), Err("OpStore")}
                      /\ calls'[p].resolver = 0
                      /\ calls'[p].update = 0
                      /\ UNCHANGED <<op_heads_store, op_store>>
             /\ op_heads_store = {} => (pc'[p] = "done" /\ ret'[p].kind = "err")
             /\ Cardinality(op_heads_store) >= 2
                => \/ pc'[p] = "done" /\ ret'[p].kind = "err"
                   \/ pc'[p] # "done" /\ op_head_ids'[p] = op_heads_store]_vars

\* While a call waited for the lock, another process merged the heads: the
\* call found the single head under the lock and returned it.
C8_Witness ==
    \E p, q \in Procs :
        /\ pc[p] = "done" /\ pc[q] = "done"
        /\ ret[q].kind = "ok" /\ ret[q].via = "merge"
        /\ ret[p] = Ok(ret[q].id, "single")
        /\ calls[p].resolver = 0 /\ calls[p].update = 0

----------------------------------------------------------------------------
\* The lock

\* One call invoked the resolver and every other call returned its operation.
OneResolverCall ==
    \E p \in Procs :
        /\ calls[p].resolver = 1
        /\ \A q \in Procs \ {p} : calls[q].resolver = 0 /\ ret[q].id = ret[p].id

\* C9 as stated: with an exclusive lock, of the concurrent calls over the
\* heads {A, B} that have returned an operation exactly one invoked the
\* resolver, and the others returned the operation it produced.
C9_Original == (lock_impl = "exclusive" /\ AllReturnedOk) => OneResolverCall

\* C9, amended: with an exclusive lock and a resolver that declares all its
\* inputs as parents, of the concurrent calls over the heads {A, B} that have
\* returned an operation exactly one invoked the resolver, and the others
\* returned the operation it produced.
C9_NoDuplicateMerge ==
    (/\ lock_impl = "exclusive"
     /\ AllReturnedOk
     /\ \A p \in Procs : ret[p].via # "merge_part")
    => OneResolverCall

\* One call merged; the other went through lock() and returned the merge
\* operation without invoking the resolver.
C9_Witness ==
    /\ lock_impl = "exclusive"
    /\ \E p, q \in Procs :
          /\ pc[p] = "done" /\ pc[q] = "done"
          /\ ret[p].via = "merge" /\ calls[p].resolver = 1
          /\ ret[q] = Ok(ret[p].id, "single")
          /\ calls[q].lock = 1 /\ calls[q].resolver = 0

\* Process p is between its lock() and its exit from resolve_op_heads.
InSection(p) == pc[p] \in {"reread", "cleanup", "resolve", "update"}

\* C10: with an exclusive lock, at most one process is between its lock()
\* and its exit from resolve_op_heads, and it is the one that holds the lock.
C10_LockMutualExclusion ==
    lock_impl = "exclusive"
    => /\ \A p, q \in Procs : (InSection(p) /\ InSection(q)) => p = q
       /\ lock_holders = {p \in Procs : InSection(p)}

\* One process is about to update the head set under the lock while the
\* other waits in lock().
C10_Witness ==
    /\ lock_impl = "exclusive"
    /\ \E p, q \in Procs : pc[p] = "update" /\ pc[q] = "lock" /\ lock_holders = {p}

\* C11: every return of a call that acquired the lock, whatever its result
\* (NoHeads, the single head, a read or filter failure, the cleaned-up head,
\* a resolver error, an update failure or the merge operation), releases the
\* lock; no process that has returned holds it.
C11_LockReleasedOnExit ==
    [][\A p \in Procs :
          /\ (InSection(p) /\ pc'[p] = "done")
             => (p \in lock_holders /\ p \notin lock_holders')
          /\ pc'[p] = "done" => p \notin lock_holders']_vars

\* A call that held the lock has returned the error of update_op_heads, and
\* nobody holds the lock.
C11_Witness ==
    \E p \in Procs :
        /\ pc[p] = "done"
        /\ calls[p].lock = 1
        /\ ret[p] = Err("Write")
        /\ lock_holders = {}

----------------------------------------------------------------------------
\* The calls of update_op_heads

\* "The old op heads must not contain the new one."
UpdatePrecondition(old_ids, new_id) == new_id \notin old_ids

\* C12: the update_op_heads call a process is about to issue from
\* resolve_op_heads satisfies new_id not in old_ids: in the cleanup path
\* (the stale ancestors, the surviving head) and in the merge path (the stale
\* ancestors and the merge operation's parents, the merge operation).
C12_UpdatePrecondition ==
    \A p \in Procs :
        /\ pc[p] = "cleanup"
           => /\ IsSingle(filtered_op_heads[p])
              /\ \A h \in filtered_op_heads[p] :
                    UpdatePrecondition(ancestor_op_heads(p), h)
        /\ pc[p] = "update"
           => UpdatePrecondition(old_op_heads(p), new_op[p])

\* A merge call is about to retire a stale ancestor together with the two
\* parents of the merge operation.
C12_Witness ==
    \E p \in Procs :
        /\ pc[p] = "update"
        /\ ancestor_op_heads(p) # {}
        /\ Len(parent_ids(new_op[p])) = 2

\* Process p makes (or abandons) its pending update_op_heads call in this step.
UpdateStep(p) == pc[p] \in {"cleanup", "update", "publish"} /\ pc'[p] # pc[p]

\* The head update_op_heads call of process p is about to add.
PendingAdd(p) ==
    IF pc[p] = "cleanup" THEN TheOne(filtered_op_heads[p]) ELSE new_op[p]

----------------------------------------------------------------------------
\* The system under fair scheduling: a process that can take a step in which
\* the stores answer eventually takes one.  Processes may still stop and
\* store accesses may still fail; nothing forces either.

LiveStep(p) ==
    \/ ReadHeadsOk(p)
    \/ AcquireLockOk(p)
    \/ RereadHeadsOk(p)
    \/ CleanupOk(p)
    \/ ResolveOk(p)
    \/ UpdateOk(p)
    \/ CommitWrite(p)
    \/ CommitPublishOk(p)

SpecLive == Init /\ [][Next]_vars /\ \A p \in Procs : WF_vars(LiveStep(p))

\* An operation of the log that no operation of the log names as a parent.
Childless(x) == x \in op_store /\ \A y \in op_store : x \notin Range(parent_ids(y))

\* The operations a resolver can return for the heads A and B when it
\* declares both as parents.
MergesOfAB == {[parents |-> <<HeadA, HeadB>>, ts |-> t] : t \in Timestamps}

----------------------------------------------------------------------------
\* The resolver

\* Process p invokes the resolver in this step.
InvokesResolver(p) == calls'[p].resolver > calls[p].resolver

\* The members of S that are not an ancestor of another member.
TrueHeads(S) == {x \in S : \A y \in S : x \notin Ancestors(y)}

\* C15: a call invokes the resolver at most once, and only from the merge
\* path: after the read under the lock, with the heads that are left of the
\* post-lock heads once the ancestors are filtered out, at least two of them.
\* A call that returned from the fast path, with NoHeads, with the single
\* post-lock head or from the cleanup path has not invoked it.
C15_ResolverOnlyOnDivergence ==
    [][\A p \in Procs :
          /\ InvokesResolver(p)
             => /\ pc[p] = "resolve"
                /\ calls[p].resolver = 0
                /\ calls[p].lock = 1
                /\ calls[p].get = 2
                /\ filtered_op_heads[p] = TrueHeads(op_head_ids[p])
                /\ Cardinality(filtered_op_heads[p]) >= 2
                /\ resolver_input'[p] # <<>>
                   => Range(resolver_input'[p]) = filtered_op_heads[p]
          /\ calls'[p].resolver <= 1
          /\ (pc'[p] = "done" /\ ret'[p].via \in {"fast", "NoHeads", "single", "cleanup"})
             => calls'[p].resolver = 0]_vars

\* A call has invoked the resolver once, on two heads, and returned its
\* operation.
C15_Witness ==
    \E p \in Procs :
        /\ pc[p] = "done"
        /\ ret[p].kind = "ok"
        /\ ret[p].via \in {"merge", "merge_part"}
        /\ calls[p].resolver = 1
        /\ calls[p].get = 2

\* C16: the update of the merge path retires exactly the post-lock heads
\* that are an ancestor of another post-lock head, and the parents of the
\* operation the resolver returned: a true head that is not among these
\* parents stays in the head set, and every stale ancestor head, none of
\* which the resolver was given, is removed.
C16_RetireSet ==
    [][\A p \in Procs :
          MergeReturns(p)
          => LET stale == op_head_ids[p] \ TrueHeads(op_head_ids[p])
                 declared == Range(parent_ids(new_op[p]))
             IN  /\ op_heads_store' =
                       (op_heads_store \ (stale \cup declared)) \cup {new_op[p]}
                 /\ \A h \in (TrueHeads(op_head_ids[p]) \cap op_heads_store) \ declared :
                       h \in op_heads_store'
                 /\ \A a \in stale :
                       a \notin op_heads_store' /\ a \notin Range(resolver_input[p])]_vars

\* A merge has returned an operation that declares one parent, and the other
\* true head is still a head beside it.
C16_Witness ==
    \E p \in Procs :
        /\ pc[p] = "done"
        /\ ret[p] = Ok(ret[p].id, "merge_part")
        /\ \E h \in op_heads_store \ {ret[p].id} :
              /\ h \notin Range(parent_ids(ret[p].id))
              /\ op_heads_store = {h, ret[p].id}

----------------------------------------------------------------------------
\* Two concurrent transactions: both processes have resolved the root as the
\* current operation; each commits one operation on top of it, its
\* update_op_heads call succeeding, and then resolves the heads again.

InitCommit ==
    /\ capacity = MaxRaceOps
    /\ op_store = {RootOp}
    /\ op_heads_store = {RootOp}
    /\ lock_impl \in {"exclusive", "noop"}
    /\ lock_holders = {}
    /\ pc = [p \in Procs |-> "done"]
    /\ op_heads = [p \in Procs |-> {}]
    /\ op_head_ids = [p \in Procs |-> {}]
    /\ filtered_op_heads = [p \in Procs |-> {}]
    /\ resolver_input = [p \in Procs |-> <<>>]
    /\ new_op = [p \in Procs |-> NoOp]
    /\ ret = [p \in Procs |-> Ok(RootOp, "fast")]
    /\ calls = [p \in Procs |-> [NoCalls EXCEPT !.get = 1]]
    /\ NoCloneCommand
    /\ NoMoveCommand

\* The transaction of p, on top of the root.
FirstCommit(p) == ret[p].id = RootOp /\ CommitWrite(p)

NextCommit ==
    \E p \in Procs :
        \/ FirstCommit(p)
        \/ CommitPublishOk(p)
        \/ FirstCall(p)
        \/ AcquireLock(p)
        \/ RereadHeads(p)
        \/ Cleanup(p)
        \/ Resolve(p)
        \/ Update(p)

SpecCommit == InitCommit /\ [][NextCommit]_vars

\* Process p has committed its transaction.
Committed(p) == pc[p] # "publish" /\ ~(pc[p] = "done" /\ ret[p].id = RootOp)

\* Two different operations, both committed on top of the root.
TwoCommits(S) == Cardinality(S) = 2 /\ \A x \in S : parent_ids(x) = <<RootOp>>

\* C17: when two processes commit on the same current operation H, each
\* update_op_heads([H], own id) leaves its operation in the head set and H
\* out of it; after the second one the head set holds exactly the
\* operations the two have written; and a resolve_op_heads call that then reads them under the
\* lock takes both for true heads and passes both to the resolver.
C17_ConcurrentTransactions ==
    [][\A p \in Procs :
          /\ (pc[p] = "publish" /\ pc'[p] = "idle")
             => /\ new_op[p] \in op_heads_store'
                /\ RootOp \notin op_heads_store'
                /\ (\A q \in Procs \ {p} : Committed(q))
                   => op_heads_store' = {x \in op_store : parent_ids(x) = <<RootOp>>}
          /\ (RereadStep(p) /\ TwoCommits(op_heads_store))
             => \/ pc'[p] = "resolve" /\ filtered_op_heads'[p] = op_heads_store
                \/ pc'[p] = "done" /\ ret'[p].kind = "err"
          /\ (pc[p] = "resolve" /\ pc'[p] = "update" /\ TwoCommits(op_head_ids[p]))
             => /\ Len(resolver_input'[p]) = 2
                /\ Range(resolver_input'[p]) = op_head_ids[p]]_vars

\* Both transactions are committed, their operations differ and were the
\* heads; a call has passed both to the resolver.
C17_Witness ==
    \E p \in Procs :
        /\ \A q \in Procs : Committed(q)
        /\ pc[p] = "update"
        /\ TwoCommits(op_head_ids[p])
        /\ Range(resolver_input[p]) = op_head_ids[p]

----------------------------------------------------------------------------
\* Failures

\* The errors of the stores and of the resolver, as resolve_op_heads returns
\* them.
ReadError == [kind |-> "err", id |-> NoOp, via |-> "Read"]
OpStoreError == [kind |-> "err", id |-> NoOp, via |-> "OpStore"]
ResolverError == [kind |-> "err", id |-> NoOp, via |-> "Resolver"]
WriteError == [kind |-> "err", id |-> NoOp, via |-> "Write"]

\* Process p returns error e in this step.
ReturnsError(p, e) == pc[p] # "done" /\ pc'[p] = "done" /\ ret'[p] = e

\* C18: on the slow path a failure of the post-lock get_op_heads, or of
\* read_operation of a head, ends the call with that error: get_op_heads has
\* been called twice (once before the lock, once after) and not again, the
\* resolver and update_op_heads have not been called, and the head set and
\* the operation store are unchanged.  An operation read can only fail when
\* there is a head to read.
C18_StorageFailuresPropagate ==
    [][\A p \in Procs :
          /\ (InSection(p) /\ (ReturnsError(p, ReadError) \/ ReturnsError(p, OpStoreError)))
             => /\ pc[p] = "reread"
                /\ calls'[p] = [get |-> 2, lock |-> 1, resolver |-> 0, update |-> 0]
                /\ UNCHANGED <<op_heads_store, op_store>>
                /\ p \notin lock_holders'
                /\ ret'[p] = OpStoreError => op_heads_store # {}
          /\ RereadStep(p)
             => \/ pc'[p] = "done" /\ ret'[p] \in {ReadError, OpStoreError}
                \/ pc'[p] = "done" /\ ret'[p].via \in {"NoHeads", "single"}
                \/ pc'[p] \in {"cleanup", "resolve"} /\ calls'[p].get = 2]_vars

\* A call has failed to read one of several heads under the lock.
C18_Witness ==
    \E p \in Procs :
        /\ pc[p] = "done"
        /\ ret[p] = OpStoreError
        /\ calls[p] = [get |-> 2, lock |-> 1, resolver |-> 0, update |-> 0]
        /\ Cardinality(op_heads_store) >= 2

\* C19: a call that leaves the merge path without an operation returns the
\* resolver's error; it has invoked the resolver once and not called
\* update_op_heads, and none of its steps, from the read before the lock to
\* the return, changes the head set: the divergent heads and the stale
\* ancestors it read are heads as before, unless another process retired
\* them meanwhile.
C19_ResolverErrorsPropagate ==
    [][\A p \in Procs :
          /\ (pc[p] = "resolve" /\ pc'[p] = "done")
             => /\ ret'[p] = ResolverError
                /\ calls'[p].resolver = 1
                /\ calls'[p].update = 0
                /\ p \notin lock_holders'
                /\ UNCHANGED op_heads_store
                /\ op_heads_store = op_head_ids[p] => op_heads_store' = op_head_ids[p]
          /\ ReturnsError(p, ResolverError) => pc[p] = "resolve"
          /\ (pc[p] \in {"idle", "lock", "reread", "resolve"} /\ pc'[p] # pc[p])
             => UNCHANGED op_heads_store]_vars

\* A call has returned the resolver's error and the two heads it was to
\* merge, with a stale ancestor, are the head set.
C19_Witness ==
    \E p \in Procs :
        /\ pc[p] = "done"
        /\ ret[p] = ResolverError
        /\ calls[p].update = 0
        /\ op_heads_store = {RootOp, HeadA, HeadB}

\* C20: a call returns an operation from the cleanup or the merge path only
\* when its update_op_heads call took effect; when that call fails, the call
\* returns the error and no operation, although in the merge path the merge
\* operation is written, and the head set is as it was or has the new head
\* added.  The call keeps nothing: the next call of the process starts with
\* a read of the head set as it then is.
C20_UpdateFailurePropagates ==
    [][\A p \in Procs :
          /\ (pc[p] \in {"cleanup", "update"} /\ pc'[p] = "done")
             => \/ /\ ret'[p].kind = "ok"
                   /\ ret'[p].id = PendingAdd(p)
                   /\ op_heads_store' =
                         (op_heads_store \ PendingRetire(p)) \cup {PendingAdd(p)}
                \/ /\ ret'[p] = WriteError
                   /\ op_heads_store' \in
                         {op_heads_store, op_heads_store \cup {PendingAdd(p)}}
                   /\ pc[p] = "update" => new_op[p] \in op_store'
                   /\ new_op'[p] = NoOp /\ op_head_ids'[p] = {}
                   /\ p \notin lock_holders'
          /\ ReturnsError(p, WriteError) => pc[p] \in {"cleanup", "update"}
          /\ (pc[p] = "done" /\ ret[p] = WriteError /\ calls'[p] # calls[p])
             => /\ calls'[p] = [get |-> 1, lock |-> 0, resolver |-> 0, update |-> 0]
                /\ \/ pc'[p] = "lock" /\ op_heads'[p] \in {op_heads_store, {}}
                   \/ pc'[p] = "done" /\ ret'[p].kind = "err"
                   \/ pc'[p] = "done" /\ op_heads_store = {ret'[p].id}]_vars

\* A call has returned the error of update_op_heads from the merge path: the
\* merge operation is in the log and is not a head.
C20_Witness ==
    \E p \in Procs :
        /\ pc[p] = "done"
        /\ ret[p] = WriteError
        /\ calls[p].resolver = 1
        /\ \E x \in op_store \ op_heads_store : Len(parent_ids(x)) = 2

LockError == [kind |-> "err", id |-> NoOp, via |-> "Lock"]

\* C21: a call leaves lock() either holding the lock handle, on its way to
\* the read under the lock, or with the lock error, which is not NoHeads; in
\* the latter case it has called lock() once and get_op_heads once (before
\* the lock), it has called neither the resolver nor update_op_heads, and
\* the head set and the operation store are unchanged.  The lock error is
\* returned from nowhere else.
C21_LockFailurePropagates ==
    [][\A p \in Procs :
          /\ (pc[p] = "lock" /\ pc'[p] \notin {"lock", "idle"})
             => \/ /\ pc'[p] = "reread"
                   /\ p \in lock_holders'
                   /\ calls'[p].lock = 1
                \/ /\ pc'[p] = "done"
                   /\ ret'[p] = LockError
                   /\ ret'[p].via # "NoHeads"
                   /\ calls'[p] = [get |-> 1, lock |-> 1, resolver |-> 0, update |-> 0]
                   /\ p \notin lock_holders'
                   /\ UNCHANGED <<op_heads_store, op_store>>
          /\ ReturnsError(p, LockError) => pc[p] = "lock"]_vars

\* A call has given up waiting for the exclusive lock that another process
\* holds, with several heads to resolve.
C21_Witness ==
    \E p, q \in Procs :
        /\ lock_impl = "exclusive"
        /\ pc[p] = "done"
        /\ ret[p] = LockError
        /\ lock_holders = {q}
        /\ InSection(q)
        /\ Cardinality(op_heads_store) >= 2

----------------------------------------------------------------------------
\* The ancestor filter on its own: the operation store holds any log of at
\* most MaxDagOps operations, and the filter is applied to any set of them.

MaxDagOps == 5

\* The lists of one or two different operations of S.
ParentLists(S) ==
    {<<x>> : x \in S} \cup {s \in S \X S : s[1] # s[2]}

\* Operations of three generations below the root: the two children of the
\* root, the operations on top of these (merges among them), and one child of
\* each of the latter.
Generation1 == {HeadA, HeadB}
Generation2 ==
    {[parents |-> ps, ts |-> 1] :
        ps \in ParentLists({RootOp} \cup Generation1) \ ParentLists({RootOp})}
Generation3 == {[parents |-> <<x>>, ts |-> 1] : x \in Generation2}

\* An operation store holds the parents of every operation it holds.
ParentClosed(S) == \A x \in S : Range(parent_ids(x)) \subseteq S

InitFilter ==
    /\ capacity = MaxRaceOps
    /\ op_store \in {S \in SUBSET ({RootOp} \cup Generation1 \cup Generation2 \cup Generation3) :
                        /\ RootOp \in S
                        /\ Cardinality(S) <= MaxDagOps
                        /\ ParentClosed(S)}
    /\ op_heads_store = {RootOp}
    /\ lock_impl = "noop"
    /\ lock_holders = {}
    /\ pc = [p \in Procs |-> "idle"]
    /\ op_heads = [p \in Procs |-> {}]
    /\ op_head_ids = [p \in Procs |-> {}]
    /\ filtered_op_heads = [p \in Procs |-> {}]
    /\ resolver_input = [p \in Procs |-> <<>>]
    /\ new_op = [p \in Procs |-> NoOp]
    /\ ret = [p \in Procs |-> NoRet]
    /\ calls = [p \in Procs |-> NoCalls]
    /\ NoCloneCommand
    /\ NoMoveCommand

\* Lines 129-136: the filter is applied to a set of loaded operations; the
\* ids before and after it are kept.
FilterHeads(p) ==
    /\ \A q \in Procs : pc[q] = "idle"
    /\ \E S \in SUBSET op_store :
          Goto(p, "done", {}, S, heads_ok(S), <<>>, NoOp)
    /\ UNCHANGED <<capacity, op_store, op_heads_store, lock_impl, calls>>

NextFilter == \E p \in Procs : FilterHeads(p)

SpecFilter == InitFilter /\ [][NextFilter]_vars

\* x is a transitive ancestor of y: a parent of y, or an ancestor of one.
RECURSIVE IsAncestor(_, _)
IsAncestor(x, y) ==
    \E z \in Range(parent_ids(y)) : z = x \/ IsAncestor(x, z)

\* The operation on top of A in the chain R -> A -> B.
ChainB == [parents |-> <<HeadA>>, ts |-> 1]

\* C22: the filter returns exactly the members of its input that are not a
\* transitive ancestor of another member, whether or not the operations in
\* between are members; of the diamond {A, B} over the root it returns
\* {A, B}, and of {A, B} in the chain R -> A -> B it returns {B}.
C22_AncestorFilter ==
    \A p \in Procs :
        pc[p] = "done"
        => /\ filtered_op_heads[p] =
                 {x \in op_head_ids[p] :
                     \A y \in op_head_ids[p] \ {x} : ~IsAncestor(x, y)}
           /\ op_head_ids[p] = {HeadA, HeadB} => filtered_op_heads[p] = {HeadA, HeadB}
           /\ op_head_ids[p] = {HeadA, ChainB} => filtered_op_heads[p] = {ChainB}

\* The filter has dropped a member that is an ancestor of another member
\* only through an operation that is not in its input, and kept two.
C22_Witness ==
    \E p \in Procs :
        /\ pc[p] = "done"
        /\ Cardinality(filtered_op_heads[p]) = 2
        /\ \E x \in op_head_ids[p] \ filtered_op_heads[p] :
              /\ \A y \in op_head_ids[p] : x \notin Range(parent_ids(y))
              /\ \E y \in op_head_ids[p] : IsAncestor(x, y)

----------------------------------------------------------------------------
\* Process p passes, or fails in, the ancestor filter in this step: it has
\* read several heads under the lock.
FilterStep(p) == RereadStep(p) /\ Cardinality(op_heads_store) >= 2

\* C23: the filter either runs to its end, and the call goes on with the
\* heads that are not an ancestor of another head, or the call returns the
\* store's error (an unreadable head or parent, or a failed get_op_heads); no
\* unreadable parent is skipped.  A call that returns the operation store's
\* error from there has not invoked the resolver or called update_op_heads,
\* has not changed the head set or the operation store, and holds no lock.
C23_FilterLookupFailure ==
    [][\A p \in Procs :
          FilterStep(p)
          => \/ /\ pc'[p] \in {"cleanup", "resolve"}
                /\ op_head_ids'[p] = op_heads_store
                /\ filtered_op_heads'[p] = TrueHeads(op_heads_store)
             \/ /\ pc'[p] = "done"
                /\ ret'[p] \in {OpStoreError, ReadError}
                /\ calls'[p].resolver = 0
                /\ calls'[p].update = 0
                /\ resolver_input'[p] = <<>>
                /\ p \notin lock_holders'
                /\ UNCHANGED <<op_heads_store, op_store>>]_vars

\* A call has returned the operation store's error with two heads to filter
\* whose parent is not a head: reading it is the filter's business.
C23_Witness ==
    \E p \in Procs :
        /\ pc[p] = "done"
        /\ ret[p] = OpStoreError
        /\ calls[p].get = 2
        /\ calls[p].resolver = 0
        /\ Cardinality(op_heads_store) = 2
        /\ \E h \in op_heads_store :
              \E x \in Range(parent_ids(h)) : x \notin op_heads_store

----------------------------------------------------------------------------
\* The order of the resolver's input: two calls have read and filtered the
\* same divergent heads (the lock excludes nobody), up to MaxHeads of them,
\* and each holds them in the order they came out of its filter.

MaxHeads == 3

\* End timestamps of the heads: enough for MaxHeads heads to differ in them.
HeadTimestamps == 1..MaxHeads

\* An operation that is not a head, with operations on top of it.
SideOp == [parents |-> <<RootOp>>, ts |-> 0]

\* Operations none of which is an ancestor of another, two for every end
\* timestamp.
DivergentOps ==
    {[parents |-> <<x>>, ts |-> t] : x \in {RootOp, SideOp}, t \in HeadTimestamps}

InitOrder ==
    /\ lock_impl = "noop"
    /\ lock_holders = Procs
    /\ pc = [p \in Procs |-> "resolve"]
    /\ \E S \in SUBSET DivergentOps :
          /\ Cardinality(S) \in 2..MaxHeads
          /\ op_store = {RootOp, SideOp} \cup S
          /\ op_heads_store = S
          /\ op_head_ids = [p \in Procs |-> S]
          /\ filtered_op_heads = [p \in Procs |-> S]
          /\ resolver_input \in [Procs -> Orderings(S)]
    /\ capacity = Cardinality(op_store) + Cardinality(Procs)
    /\ op_heads = [p \in Procs |-> {}]
    /\ new_op = [p \in Procs |-> NoOp]
    /\ ret = [p \in Procs |-> NoRet]
    /\ calls = [p \in Procs |-> [get |-> 2, lock |-> 1, resolver |-> 0, update |-> 0]]
    /\ NoCloneCommand
    /\ NoMoveCommand

\* Lines 149-150 for the list of line 141 that the process holds.
ResolveListed(p) == ResolverGiven(p, resolver_input[p], TRUE)

NextOrder == \E p \in Procs : ResolveListed(p)

SpecOrder == InitOrder /\ [][NextOrder]_vars

\* The place of x in the list s.
IndexOf(s, x) == CHOOSE i \in 1..Len(s) : s[i] = x

DistinctTimestamps(S) ==
    \A x, y \in S : end_timestamp(x) = end_timestamp(y) => x = y

\* C24: the list passed to the resolver holds the filtered heads, each once,
\* in non-decreasing order of end timestamp; heads with equal end timestamps
\* are in the order in which they came out of the filter; and when the end
\* timestamps of the heads differ pairwise, two calls over the same heads
\* pass the same list, whatever the order their filter produced.
C24_ResolverInputOrder ==
    [][\A p \in Procs :
          (pc[p] = "resolve" /\ pc'[p] = "update")
          => LET given == resolver_input[p]
                 passed == resolver_input'[p]
             IN  /\ Len(passed) = Cardinality(filtered_op_heads[p])
                 /\ Range(passed) = filtered_op_heads[p]
                 /\ AscendingByTimestamp(passed)
                 /\ \A i, j \in 1..Len(given) :
                       (i < j /\ end_timestamp(given[i]) = end_timestamp(given[j]))
                       => IndexOf(passed, given[i]) < IndexOf(passed, given[j])
                 /\ \A q \in Procs :
                       (/\ pc'[q] = "update"
                        /\ filtered_op_heads'[q] = filtered_op_heads[p]
                        /\ DistinctTimestamps(filtered_op_heads[p]))
                       => resolver_input'[q] = passed]_vars

\* Two calls over three heads with different end timestamps have passed the
\* same list to the resolver, and each got an operation of its own.
C24_Witness ==
    /\ \A p \in Procs : pc[p] = "update" /\ Len(resolver_input[p]) = 3
    /\ DistinctTimestamps(filtered_op_heads["p1"])
    /\ resolver_input["p1"] = resolver_input["p2"]
    /\ new_op["p1"] # new_op["p2"]

----------------------------------------------------------------------------
\* The operation store on its own: processes write operation records, the
\* store returns the content address of each.  A record here is the whole
\* content of an operation: the ids of its parents, in order, the end
\* timestamp of its metadata and the id of its view.

MaxWriteOps == 3

ViewIds == {"v1", "v2"}

\* The records the processes write: commits on the root and on A, and merges
\* of A and B in either order of the parents.
WriteRecords ==
    {[parents |-> ps, ts |-> t, view |-> v] :
        ps \in {<<RootOp>>, <<HeadA>>, <<HeadA, HeadB>>, <<HeadB, HeadA>>},
        t \in Timestamps, v \in ViewIds}

\* An address computed from the set of the parents, not from their list.
content_id_Unordered_Parents(rec) == <<Range(rec.parents), rec.ts, rec.view>>

\* The content address of a record: the hash of its serialized fields.  The
\* hash is taken to be free of collisions, so the address is modelled by the
\* serialized record it is the hash of.
content_id(rec) == <<rec.parents, rec.ts, rec.view>>

InitWrite ==
    /\ capacity = MaxWriteOps
    /\ op_store = {}
    /\ op_heads_store = {}
    /\ lock_impl = "noop"
    /\ lock_holders = {}
    /\ pc = [p \in Procs |-> "idle"]
    /\ op_heads = [p \in Procs |-> {}]
    /\ op_head_ids = [p \in Procs |-> {}]
    /\ filtered_op_heads = [p \in Procs |-> {}]
    /\ resolver_input = [p \in Procs |-> <<>>]
    /\ new_op = [p \in Procs |-> NoOp]
    /\ ret = [p \in Procs |-> NoRet]
    /\ calls = [p \in Procs |-> NoCalls]
    /\ NoCloneCommand
    /\ NoMoveCommand

\* op_store.write_operation(rec) by process p: the record is stored under its
\* address, which is returned.
WriteOperation(p) ==
    /\ \E rec \in WriteRecords :
          /\ CanWrite(rec)
          /\ op_store' = write_operation(op_store, rec)
          /\ new_op' = [new_op EXCEPT ![p] = rec]
          /\ ret' = [ret EXCEPT ![p] = Ok(content_id(rec), "write")]
    /\ pc' = [pc EXCEPT ![p] = "done"]
    /\ UNCHANGED <<capacity, op_heads_store, lock_impl, lock_holders, op_heads,
                   op_head_ids, filtered_op_heads, resolver_input, calls,
                   destination, clone, bookmarks, move>>

NextWrite == \E p \in Procs : WriteOperation(p)

SpecWrite == InitWrite /\ [][NextWrite]_vars

\* Process p has written a record.
HasWritten(p) == pc[p] = "done"

----------------------------------------------------------------------------
\* Process p writes an operation in this step: its resolver does, or its
\* transaction.
WritesOperation(p) ==
    \/ pc[p] = "resolve" /\ pc'[p] = "update"
    \/ pc[p] = "done" /\ pc'[p] = "publish"

\* C26: every step of the system (a fast-path return, a cleanup, a merge, a
\* commit, a failed or abandoned call) leaves every stored operation in the
\* store, under its id and with its content; a step adds at most one
\* operation, and only a resolver or a transaction adds one: resolve_op_heads
\* itself only reads the store.
C26_AppendOnlyStore ==
    [][/\ op_store \subseteq op_store'
       /\ \A x \in op_store :
             \E y \in op_store' : y = x /\ parent_ids(y) = parent_ids(x)
       /\ \A x \in op_store' \ op_store :
             /\ op_store' = op_store \cup {x}
             /\ \E p \in Procs : WritesOperation(p) /\ new_op'[p] = x
       /\ \A p \in Procs :
             (pc'[p] = "done" /\ pc[p] # "done") => op_store' = op_store]_vars

\* A cleanup has retired a stale head in favour of its child: the retired
\* operation is no head any more and is still in the store.
C26_Witness ==
    \E p \in Procs :
        /\ pc[p] = "done"
        /\ ret[p] = Ok(ret[p].id, "cleanup")
        /\ \E x \in Range(parent_ids(ret[p].id)) :
              x \in op_store /\ x # RootOp /\ x \notin op_heads_store

----------------------------------------------------------------------------
\* How far a call has come: the read before the lock, lock(), the read under
\* the lock with the filter, the resolver, update_op_heads.
StepRank(at) ==
    CASE at = "lock" -> 1
      [] at = "reread" -> 2
      [] at = "resolve" -> 3
      [] at \in {"cleanup", "update"} -> 4
      [] OTHER -> 0

\* Process p begins a call of resolve_op_heads in this step.
BeginsCall(p) == pc[p] \in {"idle", "done"} /\ calls'[p].get = 1 /\ calls'[p] # calls[p]

\* C27: within one call get_op_heads is called at most twice, once before
\* lock() and once after, and lock(), the resolver and update_op_heads at
\* most once each; every step of a call takes it to a later point of
\* resolve_op_heads or ends it, and each step makes one call of one
\* collaborator.
C27_NoInternalRetries ==
    [][\A p \in Procs :
          /\ calls'[p].get <= 2
          /\ calls'[p].lock <= 1
          /\ calls'[p].resolver <= 1
          /\ calls'[p].update <= 1
          /\ pc'[p] \in {"lock", "reread"} => calls'[p].get = 1
          /\ (calls'[p] # calls[p] /\ ~BeginsCall(p) /\ pc'[p] \notin {"idle", "publish"})
             => /\ pc[p] \notin {"idle", "done", "publish"}
                /\ pc'[p] = "done" \/ StepRank(pc'[p]) > StepRank(pc[p])
                /\ calls'[p].get + calls'[p].lock + calls'[p].resolver + calls'[p].update
                   = calls[p].get + calls[p].lock + calls[p].resolver + calls[p].update + 1
          /\ (pc[p] \in {"lock", "reread", "cleanup", "resolve", "update"} /\ pc'[p] # pc[p])
             => (pc'[p] \in {"idle", "done"} \/ StepRank(pc'[p]) > StepRank(pc[p]))]_vars

\* A call has gone the longest way (both reads, the lock, the resolver, the
\* update) and failed at its end; each collaborator was called once, and
\* get_op_heads twice.
C27_Witness ==
    \E p \in Procs :
        /\ pc[p] = "done"
        /\ ret[p] = WriteError
        /\ calls[p] = [get |-> 2, lock |-> 1, resolver |-> 1, update |-> 1]

----------------------------------------------------------------------------
\* Termination.  Two processes call resolve_op_heads again and again over a
\* log of two operations committed on the root; the store has an exclusive
\* lock (with the no-op lock no call waits), and stores and resolver may fail
\* as anywhere else.  The scheduling is fair: a call that has the lock
\* eventually takes its next step, the store or the resolver answering one
\* way or the other; and a call that waits in lock() gets the lock if it is
\* free again and again (nothing forces lock() to fail).

MaxFairOps == 4

InitFair ==
    /\ capacity = MaxFairOps
    /\ op_store = {RootOp, HeadA, HeadB}
    /\ op_heads_store = {HeadA, HeadB}
    /\ lock_impl = "exclusive"
    /\ lock_holders = {}
    /\ pc = [p \in Procs |-> "idle"]
    /\ op_heads = [p \in Procs |-> {}]
    /\ op_head_ids = [p \in Procs |-> {}]
    /\ filtered_op_heads = [p \in Procs |-> {}]
    /\ resolver_input = [p \in Procs |-> <<>>]
    /\ new_op = [p \in Procs |-> NoOp]
    /\ ret = [p \in Procs |-> NoRet]
    /\ calls = [p \in Procs |-> NoCalls]
    /\ NoCloneCommand
    /\ NoMoveCommand

\* Process p is inside a call of resolve_op_heads.
InCall(p) == pc[p] \in {"lock", "reread", "cleanup", "resolve", "update"}

\* A step of a call that has got past lock().
SectionStep(p) == RereadHeads(p) \/ Cleanup(p) \/ Resolve(p) \/ Update(p)

NextCalls ==
    \E p \in Procs :
        \/ ReadHeads(p)
        \/ AcquireLock(p)
        \/ RereadHeads(p)
        \/ Cleanup(p)
        \/ Resolve(p)
        \/ Update(p)

SpecFair ==
    /\ InitFair
    /\ [][NextCalls]_vars
    /\ \A p \in Procs : WF_vars(SectionStep(p)) /\ SF_vars(AcquireLockOk(p))

----------------------------------------------------------------------------
\* jj git clone SOURCE DESTINATION, as cli/tests/test_git_clone.rs drives it:
\* one command at a time, on a destination path that is absent, a file or a
\* directory; between commands the test changes what is at the path.

EmptyDir == [kind |-> "dir", entries |-> {}]
File == [kind |-> "file", entries |-> {}]

\* What can be at the destination path: nothing, a file, or a directory that
\* holds any of a .jj directory, a .git directory and a file.
DestinationStates ==
    {Absent, File}
    \cup {[kind |-> "dir", entries |-> E] : E \in SUBSET {".jj", ".git", "file"}}

\* The sources: a directory that is no git repository, a git repository
\* without commits, a git repository with a commit, a git repository whose
\* commit holds a file named .jj.
Sources == {"bad", "empty_repo", "repo", "malformed"}

DestinationError == "Destination path exists and is not an empty directory"
FetchError == "could not find repository"
CheckoutError == "Failed to check out commit"
FetchingLine == "Fetching into new repo"

\* What the new repository puts into the destination directory.
RepoDirs(colocate) == IF colocate THEN {".jj", ".git"} ELSE {".jj"}

\* A check that lets every directory pass, empty or not.
DestinationTaken_Files_Only(d) == d.kind = "file"

\* The destination exists and is not an empty directory.
DestinationTaken(d) == d.kind # "absent" /\ ~(d.kind = "dir" /\ d.entries = {})

InitClone ==
    /\ destination \in DestinationStates
    /\ clone = CloneIdle
    /\ NoMoveCommand
    /\ capacity = MaxOps
    /\ op_store = {RootOp}
    /\ op_heads_store = {RootOp}
    /\ lock_impl = "noop"
    /\ lock_holders = {}
    /\ pc = [p \in Procs |-> "idle"]
    /\ op_heads = [p \in Procs |-> {}]
    /\ op_head_ids = [p \in Procs |-> {}]
    /\ filtered_op_heads = [p \in Procs |-> {}]
    /\ resolver_input = [p \in Procs |-> <<>>]
    /\ new_op = [p \in Procs |-> NoOp]
    /\ ret = [p \in Procs |-> NoRet]
    /\ calls = [p \in Procs |-> NoCalls]

\* The operation log of the workspace the test runs in, and its bookmarks,
\* are not touched.
LogUnchanged ==
    UNCHANGED <<capacity, op_store, op_heads_store, lock_impl, lock_holders, pc,
                op_heads, op_head_ids, filtered_op_heads, resolver_input, new_op,
                ret, calls, bookmarks, move>>

\* The command starts: it notes what is at the destination.
CloneStart ==
    /\ clone.pc = "idle"
    /\ \E src \in Sources, colocate \in BOOLEAN :
          clone' = [pc |-> "check", source |-> src, colocate |-> colocate,
                    wc_path_existed |-> FALSE,
                    before |-> destination, result |-> "none", stderr |-> <<>>]
    /\ UNCHANGED destination
    /\ LogUnchanged

\* The destination is checked before anything is created or fetched.
CloneCheckDestination ==
    /\ clone.pc = "check"
    /\ clone' = IF DestinationTaken(destination)
                THEN [clone EXCEPT !.pc = "exit", !.result = DestinationError,
                                   !.stderr = Append(@, DestinationError)]
                ELSE [clone EXCEPT !.pc = "create",
                                   !.wc_path_existed = (destination.kind # "absent")]
    /\ UNCHANGED destination
    /\ LogUnchanged

\* The destination directory is created unless it exists.
CloneCreateDir ==
    /\ clone.pc = "create"
    /\ destination' = IF destination.kind = "absent" THEN EmptyDir ELSE destination
    /\ clone' = [clone EXCEPT !.pc = "init"]
    /\ LogUnchanged

\* The new repository is set up; "Fetching into new repo in ..." is printed.
CloneInitRepo ==
    /\ clone.pc = "init"
    /\ destination' = [destination EXCEPT !.entries = @ \cup RepoDirs(clone.colocate)]
    /\ clone' = [clone EXCEPT !.pc = "fetch", !.stderr = Append(@, FetchingLine)]
    /\ LogUnchanged

\* The fetch fails: the source is no repository, or the remote call fails.
CloneFetchFail ==
    /\ clone.pc = "fetch"
    /\ clone' = [clone EXCEPT !.pc = "cleanup", !.result = FetchError,
                               !.stderr = Append(@, FetchError)]
    /\ UNCHANGED destination
    /\ LogUnchanged

CloneFetchOk ==
    /\ clone.pc = "fetch"
    /\ clone.source # "bad"
    /\ clone' = [clone EXCEPT !.pc = "checkout"]
    /\ UNCHANGED destination
    /\ LogUnchanged

\* The working copy is checked out; the command succeeds.
CloneCheckout ==
    /\ clone.pc = "checkout"
    /\ clone.source # "malformed"
    /\ destination' =
          [destination EXCEPT
              !.entries = @ \cup (IF clone.source = "repo" THEN {"file"} ELSE {})]
    /\ clone' = [clone EXCEPT !.pc = "exit", !.result = "ok"]
    /\ LogUnchanged

\* The check-out fails on the reserved path .jj: an internal error, and the
\* new workspace stays where it is.
CloneCheckoutFail ==
    /\ clone.pc = "checkout"
    /\ clone.source = "malformed"
    /\ clone' = [clone EXCEPT !.pc = "exit", !.result = CheckoutError,
                               !.stderr = Append(@, CheckoutError)]
    /\ UNCHANGED destination
    /\ LogUnchanged

\* A clean-up that removes the destination directory in any case.
CloneCleanUp_Removes_Directory ==
    /\ clone.pc = "cleanup"
    /\ destination' = Absent
    /\ clone' = [clone EXCEPT !.pc = "exit"]
    /\ LogUnchanged

\* The failed clone cleans up: what the new repository put into the
\* destination goes, and so does the directory if the command created it.
CloneCleanUp ==
    /\ clone.pc = "cleanup"
    /\ destination' = IF clone.wc_path_existed
                      THEN [destination EXCEPT
                               !.entries = @ \ RepoDirs(clone.colocate)]
                      ELSE Absent
    /\ clone' = [clone EXCEPT !.pc = "exit"]
    /\ LogUnchanged

\* The command is over; the test goes on.
CloneExit ==
    /\ clone.pc = "exit"
    /\ clone' = CloneIdle
    /\ UNCHANGED destination
    /\ LogUnchanged

\* Between commands the test creates the directory, writes a file at the
\* path, or removes the .jj directory of a workspace.
TestChangesDestination ==
    /\ clone.pc = "idle"
    /\ \/ destination = Absent /\ destination' = EmptyDir
       \/ destination = Absent /\ destination' = File
       \/ /\ destination.kind = "dir"
          /\ ".jj" \in destination.entries
          /\ destination' = [destination EXCEPT !.entries = @ \ {".jj"}]
    /\ UNCHANGED clone
    /\ LogUnchanged

NextClone ==
    \/ CloneStart
    \/ CloneCheckDestination
    \/ CloneCreateDir
    \/ CloneInitRepo
    \/ CloneFetchFail
    \/ CloneFetchOk
    \/ CloneCheckout
    \/ CloneCheckoutFail
    \/ CloneCleanUp
    \/ CloneExit
    \/ TestChangesDestination

SpecClone == InitClone /\ [][NextClone]_vars

\* The command has failed after it began to set up the new repository.
CloneFailedLate ==
    clone.pc = "exit" /\ clone.result \in {FetchError, CheckoutError}

\* The command has failed in the fetch.
CloneFailedFetching == clone.pc = "exit" /\ clone.result = FetchError

\* The destination is as a cleaned-up clone leaves it: absent if it was
\* absent before the command, a directory without a .jj directory if it
\* was an empty directory.
CleanedUp ==
    /\ clone.before = Absent => destination = Absent
    /\ clone.before = EmptyDir
       => (destination.kind = "dir" /\ ".jj" \notin destination.entries)

\* C29, as stated: when the command has failed after it began to set up the
\* new repository, a destination that did not exist before the command does
\* not exist, and a destination that was an empty directory is a directory
\* without a .jj directory.
C29_FailedCloneCleansUp == CloneFailedLate => CleanedUp

\* C29, amended: when the command has failed in the fetch, a destination
\* that did not exist before the command does not exist, and a destination
\* that was an empty directory is a directory without a .jj directory.
C29_FailedFetchCleansUp == CloneFailedFetching => CleanedUp

\* A clone from a source that is no repository into an empty directory has
\* failed: the directory is there, empty as before.
C29_Witness ==
    /\ CloneFailedFetching
    /\ clone.source = "bad"
    /\ clone.wc_path_existed
    /\ clone.stderr = <<FetchingLine, FetchError>>
    /\ clone.before = EmptyDir
    /\ destination = EmptyDir

\* C30: a command whose destination exists and is not an empty directory
\* ends at the check of the destination, with the error "Destination path
\* exists and is not an empty directory", whatever its source; the
\* destination is as it was, a workspace's .jj directory included.
C30_DestinationNotEmpty ==
    (clone.pc \notin {"idle", "check"} /\ clone.before \notin {Absent, EmptyDir})
    => /\ clone.pc = "exit"
       /\ clone.result = DestinationError
       /\ clone.stderr = <<DestinationError>>
       /\ destination = clone.before
       /\ ".jj" \in clone.before.entries => ".jj" \in destination.entries

\* A clone from a source that is no repository into a workspace has been
\* refused; the workspace has its .jj directory.
C30_Witness ==
    /\ clone.pc = "exit"
    /\ clone.source = "bad"
    /\ clone.result = DestinationError
    /\ clone.stderr = <<DestinationError>>
    /\ clone.before = [kind |-> "dir", entries |-> {".jj", "file"}]
    /\ ".jj" \in destination.entries

----------------------------------------------------------------------------
\* jj bookmark move (cli/src/commands/bookmark/move.rs): one command at a
\* time in a workspace whose operation log has a single head.

MaxMoveOps == 3

\* The commits of the repository: c2 is a child of c1, c3 a child of c2, and
\* s a child of c1 beside c2.
Commits == {"c1", "c2", "c3", "s"}

CommitParents == [c \in Commits |->
    IF c = "c2" THEN {"c1"} ELSE IF c = "c3" THEN {"c2"} ELSE IF c = "s" THEN {"c1"} ELSE {}]

\* index().is_ancestor: a commit is an ancestor of itself.
RECURSIVE is_ancestor(_, _)
is_ancestor(a, b) == a = b \/ \E q \in CommitParents[b] : is_ancestor(a, q)

\* The targets of a bookmark: absent, normal, or conflicted between two
\* commits.
Targets ==
    {AbsentTarget} \cup {{c} : c \in Commits}
    \cup {{"c2", "s"}, {"c3", "s"}, {"c1", "c3"}}

is_present(target) == target # AbsentTarget

\* RefTarget::as_normal() == Some(id)
is_normal_at(target, id) == target = {id}

\* bookmark::is_fast_forward: a present target moves forward when any of its
\* added ids is an ancestor of the new target; an absent one always does.
is_fast_forward(old_target, new_target_id) ==
    IF is_present(old_target)
    THEN \E old \in old_target : is_ancestor(old, new_target_id)
    ELSE TRUE

\* is_source_ref: with --from, a target matches when one of its added ids is
\* in the revset; without, every target matches.
is_source_ref(from, target) == from = {} \/ target \cap from # {}

\* The local bookmarks of a view that match a name (an exact pattern) and
\* the --from filter.
MatchesOf(view, from, n) ==
    IF is_present(view[n]) /\ is_source_ref(from, view[n]) THEN {n} ELSE {}

\* The bookmarks the command selects before no-op matches are dropped: with
\* names, the matches of each name; without, every local bookmark that
\* passes the --from filter.
SelectedBookmarks(view, names, from) ==
    IF names # {}
    THEN UNION {MatchesOf(view, from, n) : n \in names}
    ELSE UNION {MatchesOf(view, from, n) : n \in Names}

\* find_bookmarks_with fails when a name pattern matches nothing.
UnmatchedPatterns(view, names, from) == {n \in names : MatchesOf(view, from, n) = {}}

NoSuchBookmark == "No such bookmark"
NoBookmarksToUpdate == "No bookmarks to update."
RefusingToMove == "Refusing to move bookmark backwards or sideways"
MovedBookmarks == "Moved bookmarks"
FinishError == "transaction failed"

\* The command line: names or --from (at least one of them), --to, and
\* --allow-backwards.
MoveArgs ==
    {a \in [names : SUBSET Names, from : {{}} \cup {{c} : c \in Commits},
            to : Commits, allow_backwards : BOOLEAN] :
        a.names # {} \/ a.from # {}}

InitMove ==
    /\ bookmarks \in [Names -> Targets]
    /\ move = MoveIdle
    /\ NoCloneCommand
    /\ capacity = MaxMoveOps
    /\ op_store = {RootOp}
    /\ op_heads_store = {RootOp}
    /\ lock_impl = "noop"
    /\ lock_holders = {}
    /\ pc = [p \in Procs |-> "idle"]
    /\ op_heads = [p \in Procs |-> {}]
    /\ op_head_ids = [p \in Procs |-> {}]
    /\ filtered_op_heads = [p \in Procs |-> {}]
    /\ resolver_input = [p \in Procs |-> <<>>]
    /\ new_op = [p \in Procs |-> NoOp]
    /\ ret = [p \in Procs |-> NoRet]
    /\ calls = [p \in Procs |-> NoCalls]

\* What a step of the command leaves alone besides the log and the view.
MoveFrame ==
    UNCHANGED <<capacity, lock_impl, lock_holders, pc, op_heads, op_head_ids,
                filtered_op_heads, resolver_input, new_op, ret, calls, cloneVars>>

LogAndViewUnchanged == UNCHANGED <<op_store, op_heads_store, bookmarks>>

\* workspace_helper: the repo is loaded at the head operation; the target
\* revision is resolved.
MoveStart ==
    /\ move.pc = "idle"
    /\ Cardinality(op_heads_store) = 1
    /\ Cardinality(op_store) < capacity
    /\ \E a \in MoveArgs :
          move' = [MoveIdle EXCEPT
                      !.pc = "match", !.names = a.names, !.from = a.from, !.to = a.to,
                      !.allow_backwards = a.allow_backwards,
                      !.view_before = bookmarks, !.store_before = op_store,
                      !.heads_before = op_heads_store]
    /\ LogAndViewUnchanged
    /\ MoveFrame

\* A match that keeps the bookmarks that already point at the target.
MoveMatch_Keeps_Noop ==
    /\ move.pc = "match"
    /\ move' =
          IF UnmatchedPatterns(move.view_before, move.names, move.from) # {}
          THEN [move EXCEPT !.pc = "exit", !.result = NoSuchBookmark]
          ELSE [move EXCEPT
                   !.pc = "matched",
                   !.matched = SelectedBookmarks(move.view_before, move.names, move.from)]
    /\ LogAndViewUnchanged
    /\ MoveFrame

\* matched_bookmarks: the selected bookmarks without those whose target is
\* normal and is the target commit.
MoveMatch ==
    /\ move.pc = "match"
    /\ move' =
          IF UnmatchedPatterns(move.view_before, move.names, move.from) # {}
          THEN [move EXCEPT !.pc = "exit", !.result = NoSuchBookmark]
          ELSE [move EXCEPT
                   !.pc = "matched",
                   !.matched =
                      {n \in SelectedBookmarks(move.view_before, move.names, move.from) :
                          ~is_normal_at(move.view_before[n], move.to)}]
    /\ LogAndViewUnchanged
    /\ MoveFrame

\* Nothing is matched: "No bookmarks to update.", and the command succeeds.
MoveCheckEmpty ==
    /\ move.pc = "matched"
    /\ move' = IF move.matched = {}
               THEN [move EXCEPT !.pc = "exit", !.result = "ok",
                                 !.status = NoBookmarksToUpdate]
               ELSE [move EXCEPT !.pc = "check"]
    /\ LogAndViewUnchanged
    /\ MoveFrame

\* A check that refuses only when no matched bookmark moves forward.
MoveCheckBackwards_Unless_Any_Forward ==
    /\ move.pc = "check"
    /\ move' =
          IF /\ ~move.allow_backwards
             /\ \A n \in move.matched :
                   ~is_fast_forward(move.view_before[n], move.to)
          THEN [move EXCEPT !.pc = "exit", !.result = RefusingToMove]
          ELSE [move EXCEPT !.pc = "transaction"]
    /\ LogAndViewUnchanged
    /\ MoveFrame

\* Without --allow-backwards the command refuses when the move of some
\* matched bookmark is not a fast-forward.
MoveCheckBackwards ==
    /\ move.pc = "check"
    /\ move' =
          IF /\ ~move.allow_backwards
             /\ \E n \in move.matched :
                   ~is_fast_forward(move.view_before[n], move.to)
          THEN [move EXCEPT !.pc = "exit", !.result = RefusingToMove]
          ELSE [move EXCEPT !.pc = "transaction"]
    /\ LogAndViewUnchanged
    /\ MoveFrame

\* start_transaction, and set_local_bookmark_target for every matched
\* bookmark, in the view of the transaction.
MoveTransaction ==
    /\ move.pc = "transaction"
    /\ move' = [move EXCEPT
                   !.pc = "finish", !.tx = "started",
                   !.tx_view = [n \in Names |->
                                  IF n \in move.matched THEN {move.to}
                                  ELSE move.view_before[n]]]
    /\ LogAndViewUnchanged
    /\ MoveFrame

\* tx.finish: the operation is written on top of the operation the repo was
\* loaded at and becomes the head; its view is the view of the transaction.
MoveFinishOk ==
    /\ move.pc = "finish"
    /\ \E base \in move.heads_before, t \in Timestamps :
          LET rec == [parents |-> <<base>>, ts |-> t]
          IN  /\ CanWrite(rec)
              /\ op_store' = write_operation(op_store, rec)
              /\ op_heads_store' = update_op_heads({base}, rec)
    /\ bookmarks' = move.tx_view
    /\ move' = [move EXCEPT !.pc = "exit", !.tx = "finished", !.result = "ok",
                            !.status = MovedBookmarks]
    /\ MoveFrame

\* tx.finish fails: no operation is published.
MoveFinishFail ==
    /\ move.pc = "finish"
    /\ move' = [move EXCEPT !.pc = "exit", !.result = FinishError]
    /\ LogAndViewUnchanged
    /\ MoveFrame

\* The command is over.
MoveExit ==
    /\ move.pc = "exit"
    /\ move' = MoveIdle
    /\ LogAndViewUnchanged
    /\ MoveFrame

NextMove ==
    \/ MoveStart
    \/ MoveMatch
    \/ MoveCheckEmpty
    \/ MoveCheckBackwards
    \/ MoveTransaction
    \/ MoveFinishOk
    \/ MoveFinishFail
    \/ MoveExit

SpecMove == InitMove /\ [][NextMove]_vars

\* Nothing of the repository has changed since the command started.
MoveChangedNothing ==
    /\ move.tx = "none"
    /\ op_store = move.store_before
    /\ op_heads_store = move.heads_before
    /\ bookmarks = move.view_before

\* The move of some matched bookmark to the target is not a fast-forward.
SomeMoveBackwards ==
    \E n \in move.matched : ~is_fast_forward(move.view_before[n], move.to)

\* C31: once the backwards check is done, a command without
\* --allow-backwards of which some matched bookmark would not move forward
\* has ended with "Refusing to move bookmark backwards or sideways", without
\* a transaction, a new operation or a changed bookmark; a command with
\* --allow-backwards is never refused, and when it succeeds with matched
\* bookmarks, each of them is at the target and one operation was added.
C31_BackwardsAllOrNothing ==
    /\ (move.pc \in {"transaction", "finish", "exit"}
        /\ ~move.allow_backwards /\ SomeMoveBackwards)
       => (move.pc = "exit" /\ move.result = RefusingToMove /\ MoveChangedNothing)
    /\ move.allow_backwards => move.result # RefusingToMove
    /\ (move.pc = "exit" /\ move.allow_backwards /\ move.matched # {}
        /\ move.result = "ok")
       => /\ \A n \in move.matched : bookmarks[n] = {move.to}
          /\ \A n \in Names \ move.matched : bookmarks[n] = move.view_before[n]
          /\ move.tx = "finished"
          /\ Cardinality(op_store \ move.store_before) = 1

\* Both bookmarks are matched, a moves forward and b does not; the command
\* was refused and a is where it was.
C31_Witness ==
    /\ move.pc = "exit"
    /\ move.result = RefusingToMove
    /\ move.matched = {"a", "b"}
    /\ is_fast_forward(move.view_before["a"], move.to)
    /\ ~is_fast_forward(move.view_before["b"], move.to)
    /\ bookmarks["a"] = move.view_before["a"]
    /\ bookmarks["a"] # {move.to}

\* C32: no matched bookmark points exactly at the target; and a command
\* that matched nothing has ended with "No bookmarks to update." and
\* success, without a transaction or a new operation, the view and the head
\* set as they were.
C32_NoOpMove ==
    /\ \A n \in move.matched : move.view_before[n] # {move.to}
    /\ (move.pc \in {"check", "transaction", "finish", "exit"}
        /\ move.matched = {} /\ move.result # NoSuchBookmark)
       => /\ move.pc = "exit"
          /\ move.result = "ok"
          /\ move.status = NoBookmarksToUpdate
          /\ MoveChangedNothing

\* Bookmark a is named and is at the target already: nothing is matched and
\* the command has said so.
C32_Witness ==
    /\ move.pc = "exit"
    /\ move.names = {"a"}
    /\ move.view_before["a"] = {move.to}
    /\ move.matched = {}
    /\ move.status = NoBookmarksToUpdate
    /\ MoveChangedNothing

----------------------------------------------------------------------------
\* The list of heads the resolver is given.

\* No element of s occurs twice.
NoDuplicates(s) == \A i, j \in 1..Len(s) : s[i] = s[j] => i = j

\* No element of s is an ancestor of another.
Antichain(s) == \A x, y \in Range(s) : ~IsAncestor(x, y)

\* C33: the list a resolver was given holds no operation twice and no two
\* operations of which one is an ancestor of the other.
C33_ResolverInputAntichain ==
    \A p \in Procs :
        resolver_input[p] # <<>>
        => (NoDuplicates(resolver_input[p]) /\ Antichain(resolver_input[p]))

\* The heads read under the lock held the root, a stale entry, besides two
\* operations on top of it; the resolver was given the two.
C33_Witness ==
    \E p \in Procs :
        /\ Len(resolver_input[p]) = 2
        /\ RootOp \in op_head_ids[p]
        /\ Cardinality(op_head_ids[p]) = 3
        /\ RootOp \notin Range(resolver_input[p])

----------------------------------------------------------------------------
\* Write before publish.

\* The operation process p is about to make a head.
AboutToPublish(p) == pc[p] \in {"update", "publish"}

\* C34: every id in the head set has its record in the operation store, and
\* so has the operation a process is about to hand to update_op_heads, be it
\* the merge operation of a resolution or the operation of a transaction.
C34_WriteBeforePublish ==
    /\ \A h \in op_heads_store : h \in op_store
    /\ \A p \in Procs : AboutToPublish(p) => new_op[p] \in op_store

\* A resolution has returned its merge operation, which is a head and is in
\* the store.
C34_Witness ==
    \E p \in Procs :
        /\ pc[p] = "done"
        /\ ret[p].via \in {"merge", "merge_part"}
        /\ ret[p].id \in op_heads_store
        /\ ret[p].id \in op_store

----------------------------------------------------------------------------
\* A second call after a call that succeeded.

\* Process p, whose last call returned the operation that is the only head,
\* calls resolve_op_heads again in this step.
CallsAgain(p) ==
    /\ pc[p] = "done"
    /\ ret[p].kind = "ok"
    /\ op_heads_store = {ret[p].id}
    /\ pc'[p] \in {"done", "lock"}
    /\ <<pc[p], ret[p], calls[p]>> # <<pc'[p], ret'[p], calls'[p]>>

\* No other process is about to retire the operation in an update.
NoUpdateInFlight(p) == \A q \in Procs \ {p} : ret[p].id \notin PendingRetire(q)

\* C35: a call that follows a successful call of the same process, the
\* operation that call returned being the only head and no update of it in
\* flight, ends at its first read: it returns the same operation from the
\* fast path, or the error of the read; it calls neither lock(), the
\* resolver nor update_op_heads, and the head set and the operation store
\* are as they were.
C35_IdempotentResolution ==
    [][\A p \in Procs :
          (CallsAgain(p) /\ NoUpdateInFlight(p))
          => /\ pc'[p] = "done"
             /\ ret'[p] \in {Ok(ret[p].id, "fast"), ReadError, OpStoreError}
             /\ calls'[p] = [get |-> 1, lock |-> 0, resolver |-> 0, update |-> 0]
             /\ UNCHANGED <<op_heads_store, op_store, lock_holders>>]_vars

\* A merge operation is the only head, and a call has returned it from the
\* fast path.
C35_Witness ==
    \E p \in Procs :
        /\ pc[p] = "done"
        /\ ret[p].kind = "ok"
        /\ ret[p].via = "fast"
        /\ Len(parent_ids(ret[p].id)) = 2
        /\ op_heads_store = {ret[p].id}
        /\ calls[p] = [get |-> 1, lock |-> 0, resolver |-> 0, update |-> 0]

----------------------------------------------------------------------------
\* What a call removes from the head set.

\* Process p takes a step of resolve_op_heads behind its first read.
StepsInCall(p) ==
    pc[p] \in {"lock", "reread", "cleanup", "resolve", "update"} /\ pc'[p] # pc[p]

\* x was read under the lock and is an ancestor of another head read there.
StaleInSnapshot(p, x) ==
    x \in op_head_ids[p] /\ \E y \in op_head_ids[p] : IsAncestor(x, y)

\* C36: an id that leaves the head set in a step of a call was read under
\* the lock and is an ancestor of another head read there, or is a parent
\* of the operation the resolver returned; a head that was not read under
\* the lock and is no such parent stays in the head set.
C36_RemovesOnlyWhatItRead ==
    [][\A p \in Procs :
          StepsInCall(p)
          => /\ \A x \in op_heads_store \ op_heads_store' :
                   StaleInSnapshot(p, x) \/ x \in Range(parent_ids(new_op[p]))
             /\ \A h \in op_heads_store \ op_head_ids[p] :
                   h \notin Range(parent_ids(new_op[p])) => h \in op_heads_store']_vars

\* A cleanup has returned its head, and beside it there is a head that is
\* not its ancestor: one that was added after the cleanup read the heads.
C36_Witness ==
    \E p \in Procs :
        /\ pc[p] = "done"
        /\ ret[p] = Ok(ret[p].id, "cleanup")
        /\ \E h \in op_heads_store :
              /\ op_heads_store = {ret[p].id, h}
              /\ h # ret[p].id
              /\ ~IsAncestor(h, ret[p].id)

----------------------------------------------------------------------------
\* The head set does not become empty.

\* Process p returns NoHeads from the read under the lock in this step.
ReturnsNoHeads(p) ==
    pc[p] = "reread" /\ pc'[p] = "done" /\ ret'[p] = Err("NoHeads")

\* C37: no step empties a head set that is not empty, and a call returns
\* NoHeads only when the head set is empty; so a head set that holds an id
\* at the start holds one in every state, and NoHeads is returned only on a
\* head set that was empty from the start.
C37_HeadSetStaysNonEmpty ==
    [][/\ op_heads_store # {} => op_heads_store' # {}
       /\ \A p \in Procs : ReturnsNoHeads(p) => op_heads_store = {}]_vars

\* A cleanup has retired the stale heads, and its head is the one head left.
C37_Witness ==
    \E p \in Procs :
        /\ pc[p] = "done"
        /\ ret[p] = Ok(ret[p].id, "cleanup")
        /\ ret[p].id # RootOp
        /\ op_heads_store = {ret[p].id}

----------------------------------------------------------------------------
\* The operation a call returns is a head.

\* Process p returns an operation from a call in this step.
ReturnsOk(p) ==
    /\ pc'[p] = "done"
    /\ ret'[p].kind = "ok"
    /\ <<pc[p], ret[p], calls[p]>> # <<pc'[p], ret'[p], calls'[p]>>

\* C38: the operation a call returns is in the head set when the call
\* returns, in the step of its last access to the head store: from the fast
\* path and from the single head read under the lock it is the one head
\* there is, and the head set is as it was; from a cleanup or a merge it is
\* a head after the call's update.
C38_ReturnedOperationIsHead ==
    [][\A p \in Procs :
          ReturnsOk(p)
          => /\ ret'[p].id \in op_heads_store'
             /\ ret'[p].via \in {"fast", "single"}
                => (op_heads_store = {ret'[p].id} /\ UNCHANGED op_heads_store)
             /\ ret'[p].via \in {"cleanup", "merge", "merge_part"}
                => (pc[p] \in {"cleanup", "update"} /\ calls'[p].update = 1)]_vars

\* A call has returned, from its read under the lock, the single head that
\* is there.
C38_Witness ==
    \E p \in Procs :
        /\ pc[p] = "done"
        /\ ret[p] = Ok(ret[p].id, "single")
        /\ calls[p].lock = 1
        /\ op_heads_store = {ret[p].id}

----------------------------------------------------------------------------
\* A process stops between the resolver and update_op_heads: on the
\* divergent heads A and B one process resolves and stops once the resolver
\* has returned the merge operation; then the other process resolves.

Stopper == "p1"
Later == "p2"

\* No merge operation has been written yet.
NothingMerged == op_store = {RootOp, HeadA, HeadB}

\* The first process calls while nothing is merged and the other has not
\* begun.
StopperCalls == NothingMerged /\ pc[Later] = "idle" /\ FirstCall(Stopper)

\* The process stops before update_op_heads: the head set is untouched.
StopsBeforeUpdate ==
    /\ pc[Stopper] = "update"
    /\ UNCHANGED op_heads_store
    /\ Crash(Stopper)

\* The other process calls once the first has stopped and left its merge
\* operation behind.
LaterCalls == ~NothingMerged /\ pc[Stopper] = "idle" /\ FirstCall(Later)

\* A step of a call other than its first and, for the process that stops,
\* other than its update.
CrashScenarioStep(p) ==
    \/ AcquireLock(p)
    \/ RereadHeads(p)
    \/ Resolve(p)
    \/ p = Later /\ Update(p)

NextCrash ==
    \/ StopperCalls
    \/ StopsBeforeUpdate
    \/ LaterCalls
    \/ \E p \in Procs : CrashScenarioStep(p)

SpecCrash == InitRace /\ [][NextCrash]_vars

\* The process stops in this step, the resolver having returned.
StopStep == pc[Stopper] = "update" /\ pc'[Stopper] = "idle"

\* The stop leaves the head set as the process read it, the merge operation
\* stored and not a head, and the lock free.
StopLeavesHeads ==
    /\ op_heads_store' = op_head_ids[Stopper]
    /\ new_op[Stopper] \in op_store'
    /\ new_op[Stopper] \notin op_heads_store'
    /\ Stopper \notin lock_holders'

\* The later call returns an operation from its update in this step.
LaterMerges ==
    pc[Later] = "update" /\ pc'[Later] = "done" /\ ret'[Later].kind = "ok"

\* The later call was given the heads A and B, and the operation it returns
\* is the one head.
ResolvedToOneHead ==
    /\ Range(resolver_input[Later]) = {HeadA, HeadB}
    /\ op_heads_store' = {ret'[Later].id}

\* C39, as stated: a stop between the resolver and update_op_heads leaves
\* the head set as it was read and the merge operation out of it, and the
\* later call of the other process resolves the same heads to one head.
C39_Original ==
    [][/\ StopStep => StopLeavesHeads
       /\ LaterMerges => ResolvedToOneHead]_vars

\* C39, amended: a stop between the resolver and update_op_heads leaves the
\* head set as it was read and the merge operation out of it, and the later
\* call of the other process is given the same heads and resolves them to
\* one head when its resolver declares both as parents.
C39_CrashBeforeUpdate ==
    [][/\ StopStep => StopLeavesHeads
       /\ (LaterMerges /\ Range(parent_ids(new_op[Later])) = {HeadA, HeadB})
          => ResolvedToOneHead]_vars

\* The first process has stopped and left a merge operation that is no
\* head; the later call has merged A and B into another operation, the one
\* head.
C39_Witness ==
    /\ pc[Stopper] = "idle"
    /\ pc[Later] = "done"
    /\ ret[Later] = Ok(ret[Later].id, "merge")
    /\ op_heads_store = {ret[Later].id}
    /\ \E orphan \in op_store \ {RootOp, HeadA, HeadB, ret[Later].id} :
          orphan \notin op_heads_store

----------------------------------------------------------------------------
\* A failure on the fast path.

\* The call process p begins in this step ends in it with an error.
FirstReadFails(p) ==
    /\ pc[p] \in {"idle", "done"}
    /\ pc'[p] = "done"
    /\ ret'[p].kind = "err"
    /\ <<pc[p], ret[p], calls[p]>> # <<pc'[p], ret'[p], calls'[p]>>

\* C40: a call that fails at its first read returns the error of
\* get_op_heads, or that of read_operation when there is a single head; it
\* has called get_op_heads once and neither lock(), the resolver nor
\* update_op_heads, it holds no lock, and the head set and the operation
\* store are as they were.
C40_FastPathFailure ==
    [][\A p \in Procs :
          FirstReadFails(p)
          => /\ ret'[p] \in {ReadError, OpStoreError}
             /\ ret'[p] = OpStoreError => IsSingle(op_heads_store)
             /\ calls'[p] = [get |-> 1, lock |-> 0, resolver |-> 0, update |-> 0]
             /\ p \notin lock_holders'
             /\ UNCHANGED <<op_heads_store, op_store>>]_vars

\* The record of the single head could not be read: the call has failed
\* with that error at its first read, and the head is where it was.
C40_Witness ==
    \E p \in Procs :
        /\ pc[p] = "done"
        /\ ret[p] = OpStoreError
        /\ calls[p] = [get |-> 1, lock |-> 0, resolver |-> 0, update |-> 0]
        /\ IsSingle(op_heads_store)
        /\ p \notin lock_holders

====
